---- MODULE Spec2Model ----
(***************************************************************************)
(* o2token: the authorization-code flow orchestrator, the token exchange  *)
(* client, the refresh sub-flow and the process lifecycle (soft exit and   *)
(* graceful shutdown of the local callback server).                        *)
(*                                                                         *)
(* Sources: src/o2token.go (main, softExit), src/unnamed/part_000 lines    *)
(* 1-88 (serverExit, serveAuthCodeFlow, reportErrorAndSoftExit),           *)
(* src/oidc.go (oauth2CodeCallback, refreshTokens, redeemTokens, ...),     *)
(* src/appconfig.go (initializeAppConfig).                                 *)
(*                                                                         *)
(* Goroutines: the main goroutine (mainPc), the ListenAndServe goroutine   *)
(* (listener) and one goroutine per callback request (handlers, a bag of   *)
(* handler records: net/http gives the handlers no identity, so two        *)
(* handlers in the same local state are the same element of the bag).      *)
(***************************************************************************)
EXTENDS Bags, FiniteSets, Integers, Sequences, TLC

-----------------------------------------------------------------------------
(* Bounds of the model *)

\* callback requests accepted over one run of the process
MaxRequests == 2

\* external SIGINTs delivered to the process over one run
MaxSigint == 1

\* the codes given to softExit in SpecSoftExit range over -MaxCode..MaxCode
MaxCode == 130

-----------------------------------------------------------------------------
(* Program constants *)

StatusOK == 200
StatusFound == 302
StatusNotFound == 404
StatusBadRequest == 400
StatusInternalServerError == 500

\* the largest portable exit code
ExitCodeMax == 125

\* stop := make(chan os.Signal, 1)
StopCap == 1

\* the largest valid TCP port
PortMax == 65535

-----------------------------------------------------------------------------
(* Values *)

\* OAuthAccessResponse{} and the zero error
nothing == [access_token |-> "", refresh_token |-> "", userinfo |-> "nil"]
NoErr == [kind |-> "nil", raw |-> ""]

\* bodies a token endpoint may answer with
BodyGarbage == "<html>502 Bad Gateway</html>"
BodyEmptyAT == "{\"access_token\":\"\",\"error\":\"invalid_grant\"}"
BodyAT1 == "{\"access_token\":\"AT1\",\"refresh_token\":\"RT2\"}"
Bodies == {BodyGarbage, BodyEmptyAT, BodyAT1}

\* what httpClient.Do gives redeemTokens: no response (the request could not be
\* sent), or a response with a status and a body
NoResponse == [sent |-> FALSE, status |-> 0, body |-> ""]
Responses ==
    {NoResponse} \cup {[sent |-> TRUE, status |-> s, body |-> b] : s \in {200, 400}, b \in Bodies}

\* json.Unmarshal(bodyBytes, &tokens) for the bodies above
Unmarshal(body) ==
    CASE body = BodyAT1 ->
           [ok |-> TRUE, tokens |-> [access_token |-> "AT1", refresh_token |-> "RT2", userinfo |-> "nil"]]
      [] body = BodyEmptyAT ->
           [ok |-> TRUE, tokens |-> [access_token |-> "", refresh_token |-> "", userinfo |-> "nil"]]
      [] OTHER -> [ok |-> FALSE, tokens |-> nothing]

\* outcomes of fetchUserInfo
UserInfoOutcomes == {"ok", "error"}

\* outcomes of printTokens. Its only error is json.MarshalIndent's, and a token
\* set decoded from JSON (strings, an int, a map that json.Unmarshal built)
\* always marshals: the callers' output-error branches are translated below,
\* and no run takes them.
PrintOutcomes == {"ok"}

\* genRandStr(): one representative of the 16 hex characters
RandState == "5f3a09c1d1e7b2e4"

-----------------------------------------------------------------------------
(* Configuration: initializeAppConfig *)

\* the zero AppConfig (var appConfig AppConfig)
ZeroConfig ==
    [AuthEndpoint |-> "", TokenEndpoint |-> "", UserInfoEndpoint |-> "", MetadataEndpoint |-> "",
     CallbackPath |-> <<>>, Port |-> 0, ClientID |-> "", ClientSecret |-> "",
     State |-> "", Scope |-> <<>>, UserInfo |-> FALSE, RefreshToken |-> "",
     ClientCredFlow |-> FALSE, Verbose |-> FALSE,
     Pkce |-> FALSE, CodeVerifier |-> "", CodeChallenge |-> <<>>]

\* a complete set of flag/environment values (strings that are scanned by the
\* code, the callback path and the scope, are sequences of characters/tokens)
BaseInput ==
    [AuthEndpoint |-> "https://idp.example/authorize", TokenEndpoint |-> "https://idp.example/token",
     UserInfoEndpoint |-> "https://idp.example/userinfo", MetadataEndpoint |-> "",
     CallbackPath |-> <<"/", "cb">>, Port |-> 9000, ClientID |-> "abc", ClientSecret |-> "s3cr3t",
     State |-> "xyz", Scope |-> <<"openid", ",", "offline_access">>, UserInfo |-> FALSE,
     RefreshToken |-> "", ClientCredFlow |-> FALSE, Verbose |-> FALSE,
     Pkce |-> FALSE, CodeVerifier |-> "", CodeChallenge |-> ""]

\* the flows a valid configuration can select. ClientCredFlow is the field main
\* reads first; the flag that sets it and clientCredFlow itself are in a part of
\* the program that is not in the sources, so the field is an input here.
FlowInputs ==
    {[BaseInput EXCEPT !.UserInfo = u, !.RefreshToken = r, !.ClientCredFlow = c] :
        u \in BOOLEAN, r \in {"", "RT1"}, c \in BOOLEAN}

\* configurations the validation rejects, one per rule, and the defaults
OtherInputs ==
    {[BaseInput EXCEPT !.AuthEndpoint = ""],
     [BaseInput EXCEPT !.TokenEndpoint = ""],
     [BaseInput EXCEPT !.Port = 0],
     [BaseInput EXCEPT !.Port = PortMax + 1],
     [BaseInput EXCEPT !.CallbackPath = <<>>],
     [BaseInput EXCEPT !.CallbackPath = <<"/">>],
     [BaseInput EXCEPT !.CallbackPath = <<"c", "b">>],
     [BaseInput EXCEPT !.ClientID = ""],
     [BaseInput EXCEPT !.UserInfo = TRUE, !.UserInfoEndpoint = ""],
     [BaseInput EXCEPT !.RefreshToken = "RT1", !.ClientID = ""],
     [BaseInput EXCEPT !.RefreshToken = "RT1", !.State = ""],
     [BaseInput EXCEPT !.RefreshToken = "RT1", !.AuthEndpoint = "", !.TokenEndpoint = "",
                       !.MetadataEndpoint = "https://idp.example/.well-known/openid-configuration"],
     [BaseInput EXCEPT !.AuthEndpoint = "", !.ClientID = "",
                       !.MetadataEndpoint = "https://idp.example/.well-known/openid-configuration"]}

\* --pkce (the default of the flag), without and with a verifier and a challenge
\* given on the command line
PkceInputs ==
    {[BaseInput EXCEPT !.Pkce = TRUE],
     [BaseInput EXCEPT !.Pkce = TRUE, !.CodeVerifier = "given-verifier", !.CodeChallenge = "given-challenge"],
     [BaseInput EXCEPT !.Pkce = TRUE, !.RefreshToken = "RT1"]}

ConfigInputs == FlowInputs \cup OtherInputs \cup PkceInputs

\* fetchMetadataDocument: the document, or the empty one on any failure
EmptyMetadata == [AuthEndpoint |-> "", TokenEndpoint |-> "", UserInfoEndpoint |-> ""]
MetadataDocuments ==
    {EmptyMetadata,
     [AuthEndpoint |-> "https://idp.example/authorize", TokenEndpoint |-> "https://idp.example/token",
      UserInfoEndpoint |-> "https://idp.example/userinfo"]}

\* strings.ReplaceAll(scope, ",", " ")
RECURSIVE ReplaceCommas(_)
ReplaceCommas(s) ==
    IF s = <<>> THEN <<>>
    ELSE <<IF Head(s) = "," THEN " " ELSE Head(s)>> \o ReplaceCommas(Tail(s))

\* genPkceCodeVerifier(): one representative of the random verifiers
genPkceCodeVerifier == "dBjftJeZ4CVP-mB92K27uhbUJU1p1r_wW1gFWFOEjXk"

\* a verifier of the shortest length RFC 7636 allows
VerifierA43 == "aaaaaaaaaaaaaaaaaaaaaaaaaaaaaaaaaaaaaaaaaaa"

\* base64.StdEncoding.EncodeToString(sha256.Sum256(verifier)), character by
\* character, for the verifiers of the model (the digests are the real ones)
Sha256Base64(verifier) ==
    CASE verifier = genPkceCodeVerifier ->
             <<"E", "9", "M", "e", "l", "h", "o", "a", "2", "O", "w", "v", "F", "r", "E", "M",
               "T", "J", "g", "u", "C", "H", "a", "o", "e", "K", "1", "t", "8", "U", "R", "W",
               "b", "u", "G", "J", "S", "s", "t", "w", "+", "c", "M", "=">>
      [] verifier = "given-verifier" ->
             <<"z", "B", "J", "E", "G", "g", "u", "r", "A", "6", "v", "z", "h", "u", "/", "Q",
               "H", "3", "2", "v", "W", "6", "+", "O", "x", "i", "U", "9", "e", "4", "+", "A",
               "1", "I", "6", "u", "c", "T", "t", "Y", "L", "Q", "Q", "=">>
      [] verifier = VerifierA43 ->
             <<"Z", "t", "N", "P", "u", "n", "H", "4", "9", "F", "D", "3", "5", "F", "W", "Y",
               "h", "T", "5", "T", "v", "8", "I", "7", "v", "R", "K", "Q", "J", "8", "u", "x",
               "M", "a", "L", "0", "/", "9", "e", "H", "j", "N", "A", "=">>
      [] verifier = "" ->
             <<"4", "7", "D", "E", "Q", "p", "j", "8", "H", "B", "S", "a", "+", "/", "T", "I",
               "m", "W", "+", "5", "J", "C", "e", "u", "Q", "e", "R", "k", "m", "5", "N", "M",
               "p", "J", "W", "Z", "G", "3", "h", "S", "u", "F", "U", "=">>

\* strings.ReplaceAll(s, old, new) for a one-character old; new is a string of
\* zero or one characters
ReplaceAll(s, old, new) ==
    IF new = <<>> THEN SelectSeq(s, LAMBDA c : c # old)
    ELSE [i \in 1 .. Len(s) |-> IF s[i] = old THEN new[1] ELSE s[i]]

\* Base64ToBase64Url that leaves the padding in place
Base64ToBase64Url_KeepPadding(input) ==
    ReplaceAll(ReplaceAll(input, "/", <<"_">>), "+", <<"-">>)

\* helpers.Base64ToBase64Url: "/" becomes "_", "+" becomes "-", "=" is removed
Base64ToBase64Url(input) ==
    LET result1 == ReplaceAll(input, "/", <<"_">>)
        result2 == ReplaceAll(result1, "+", <<"-">>)
    IN  ReplaceAll(result2, "=", <<>>)

\* computePkceCodeChallenge(verifier): the SHA-256 digest of the verifier,
\* base64url-encoded with the padding stripped
computePkceCodeChallenge(verifier) == Base64ToBase64Url(Sha256Base64(verifier))

\* The command line and the environment. A flag is <<>> when it is not on the
\* command line and <<value>> when it is (the value may be empty); os.Getenv
\* is <<>> for a variable that is unset or empty and <<value>> otherwise.
EnvVars ==
    {"O2TOKEN_AUTH_ENDPOINT", "O2TOKEN_CALLBACK_PATH", "O2TOKEN_CLIENT_ID", "O2TOKEN_CLIENT_SECRET",
     "O2TOKEN_METADATA_ENDPOINT", "O2TOKEN_PKCE", "O2TOKEN_PORT", "O2TOKEN_TOKEN_ENDPOINT",
     "O2TOKEN_REFRESH_TOKEN", "O2TOKEN_STATE", "O2TOKEN_SCOPE", "O2TOKEN_VERBOSE",
     "O2TOKEN_USERINFO", "O2TOKEN_USERINFO_ENDPOINT"}

NoEnviron == [v \in EnvVars |-> <<>>]

\* the command line that gives every flag, with the values of in
ArgsOf(in) == [f \in DOMAIN in |-> <<in[f]>>]

\* the defaults of the flags --port, --callback-path, --scope and --pkce
DefaultPort == 8080
DefaultCallbackPath == <<"/", "oauth2/callback">>
DefaultScope == <<"openid", ",", "offline_access">>
DefaultPkce == TRUE

\* strconv.ParseBool
ParseBool(str) ==
    IF str \in {"1", "t", "T", "TRUE", "true", "True"} THEN [ok |-> TRUE, value |-> TRUE]
    ELSE IF str \in {"0", "f", "F", "FALSE", "false", "False"} THEN [ok |-> TRUE, value |-> FALSE]
    ELSE [ok |-> FALSE, value |-> FALSE]

\* strconv.ParseUint(str, 10, 64) of a sequence of characters (the values here
\* stay far below 2^64)
Digits == {"0", "1", "2", "3", "4", "5", "6", "7", "8", "9"}
DigitValue(c) == CHOOSE n \in 0 .. 9 : <<"0", "1", "2", "3", "4", "5", "6", "7", "8", "9">>[n + 1] = c
RECURSIVE UintValue(_)
UintValue(str) ==
    IF str = <<>> THEN 0 ELSE 10 * UintValue(SubSeq(str, 1, Len(str) - 1)) + DigitValue(str[Len(str)])
ParseUint(str) ==
    IF str # <<>> /\ \A i \in 1 .. Len(str) : str[i] \in Digits
        THEN [ok |-> TRUE, value |-> UintValue(str)]
        ELSE [ok |-> FALSE, value |-> 0]

\* parseStringEnvVar, parseBoolEnvVar, parseUintEnvVar: the value of the
\* variable when it is non-empty (and parses), the default otherwise
parseStringEnvVar(env, defaultValue, envVar) ==
    IF Len(env[envVar]) > 0 THEN env[envVar][1] ELSE defaultValue

parseBoolEnvVar(env, defaultValue, envVar) ==
    IF Len(env[envVar]) > 0 /\ ParseBool(env[envVar][1]).ok
        THEN ParseBool(env[envVar][1]).value
        ELSE defaultValue

parseUintEnvVar(env, defaultValue, envVar) ==
    IF Len(env[envVar]) > 0 /\ ParseUint(env[envVar][1]).ok
        THEN ParseUint(env[envVar][1]).value
        ELSE defaultValue

\* flag.String/Bool/Uint(name, defaultValue, usage) after flag.Parse(): the
\* value on the command line when the flag is given, the default otherwise
Flag(given, defaultValue) == IF given # <<>> THEN given[1] ELSE defaultValue

\* --client-secret has the default "" (a secret must not show in --help); an
\* empty value is replaced by O2TOKEN_CLIENT_SECRET after the parsing
ClientSecretValue(cli, env) ==
    IF Flag(cli.ClientSecret, "") = ""
        THEN parseStringEnvVar(env, "", "O2TOKEN_CLIENT_SECRET")
        ELSE Flag(cli.ClientSecret, "")

\* the values of the flags after flag.Parse() and the client-secret default.
\* ClientCredFlow has no flag in the sources; it is taken from the command line.
FlagValues(cli, env) ==
    [AuthEndpoint |-> Flag(cli.AuthEndpoint, parseStringEnvVar(env, "", "O2TOKEN_AUTH_ENDPOINT")),
     CallbackPath |-> Flag(cli.CallbackPath,
                           parseStringEnvVar(env, DefaultCallbackPath, "O2TOKEN_CALLBACK_PATH")),
     ClientID |-> Flag(cli.ClientID, parseStringEnvVar(env, "", "O2TOKEN_CLIENT_ID")),
     ClientSecret |-> ClientSecretValue(cli, env),
     CodeChallenge |-> Flag(cli.CodeChallenge, ""),
     CodeVerifier |-> Flag(cli.CodeVerifier, ""),
     MetadataEndpoint |-> Flag(cli.MetadataEndpoint,
                               parseStringEnvVar(env, "", "O2TOKEN_METADATA_ENDPOINT")),
     Pkce |-> Flag(cli.Pkce, parseBoolEnvVar(env, DefaultPkce, "O2TOKEN_PKCE")),
     Port |-> Flag(cli.Port, parseUintEnvVar(env, DefaultPort, "O2TOKEN_PORT")),
     TokenEndpoint |-> Flag(cli.TokenEndpoint, parseStringEnvVar(env, "", "O2TOKEN_TOKEN_ENDPOINT")),
     RefreshToken |-> Flag(cli.RefreshToken, parseStringEnvVar(env, "", "O2TOKEN_REFRESH_TOKEN")),
     State |-> Flag(cli.State, parseStringEnvVar(env, "", "O2TOKEN_STATE")),
     Scope |-> Flag(cli.Scope, parseStringEnvVar(env, DefaultScope, "O2TOKEN_SCOPE")),
     Verbose |-> Flag(cli.Verbose, parseBoolEnvVar(env, FALSE, "O2TOKEN_VERBOSE")),
     UserInfo |-> Flag(cli.UserInfo, parseBoolEnvVar(env, FALSE, "O2TOKEN_USERINFO")),
     UserInfoEndpoint |-> Flag(cli.UserInfoEndpoint,
                               parseStringEnvVar(env, "", "O2TOKEN_USERINFO_ENDPOINT")),
     ClientCredFlow |-> Flag(cli.ClientCredFlow, FALSE)]

\* if *pkcePtr { if *codeVerifierPtr == "" { verifierStr := genPkceCodeVerifier() } }
PkceVerifier(in) ==
    IF in.Pkce /\ in.CodeVerifier = "" THEN genPkceCodeVerifier ELSE in.CodeVerifier

\* a challenge derived from the verifier of the command line, before its default
PkceChallenge_FromFlag(in) ==
    IF in.CodeChallenge # "" THEN <<in.CodeChallenge>>
    ELSE IF in.Pkce THEN computePkceCodeChallenge(in.CodeVerifier)
    ELSE <<>>

\* if *pkcePtr { if *codeChallengePtr == "" { challengeStr :=
\* computePkceCodeChallenge(*codeVerifierPtr) } }: a challenge that is given is
\* kept, an empty one is derived from the verifier when PKCE is enabled
PkceChallenge(in) ==
    IF in.CodeChallenge # "" THEN <<in.CodeChallenge>>
    ELSE IF in.Pkce THEN computePkceCodeChallenge(PkceVerifier(in))
    ELSE <<>>

\* the configuration initializeAppConfig builds from the inputs (and, when a
\* metadata endpoint is given, from the fetched document)
BuildConfig(in, idpMeta) ==
    LET useMeta == in.MetadataEndpoint # ""
        pick(given, derived) == IF useMeta /\ given = "" THEN derived ELSE given
    IN  [AuthEndpoint |-> pick(in.AuthEndpoint, idpMeta.AuthEndpoint),
         TokenEndpoint |-> pick(in.TokenEndpoint, idpMeta.TokenEndpoint),
         UserInfoEndpoint |-> pick(in.UserInfoEndpoint, idpMeta.UserInfoEndpoint),
         MetadataEndpoint |-> in.MetadataEndpoint,
         CallbackPath |-> in.CallbackPath,
         Port |-> in.Port,
         ClientID |-> in.ClientID,
         ClientSecret |-> in.ClientSecret,
         State |-> IF in.State = "" THEN RandState ELSE in.State,
         Scope |-> ReplaceCommas(in.Scope),
         UserInfo |-> in.UserInfo,
         RefreshToken |-> in.RefreshToken,
         ClientCredFlow |-> in.ClientCredFlow,
         Verbose |-> in.Verbose,
         Pkce |-> in.Pkce,
         CodeVerifier |-> PkceVerifier(in),
         CodeChallenge |-> PkceChallenge(in)]

\* the validation without its port rule
ValidateConfig_NoPortCheck(config) ==
    IF config.AuthEndpoint = "" \/ config.TokenEndpoint = ""
        THEN "authorization/token endpoints not configured"
    ELSE IF Len(config.CallbackPath) < 2 \/ config.CallbackPath[1] # "/"
        THEN "invalid callback path configured"
    ELSE IF config.ClientID = ""
        THEN "client ID not configured"
    ELSE IF config.UserInfo /\ config.UserInfoEndpoint = ""
        THEN "missing UserInfoEndpoint configuration"
    ELSE IF config.State = ""
        THEN "empty state string configured"
    ELSE ""

\* "Some level of input validation...": the error, "" for none
ValidateConfig(config) ==
    IF config.AuthEndpoint = "" \/ config.TokenEndpoint = ""
        THEN "authorization/token endpoints not configured"
    ELSE IF config.Port = 0 \/ config.Port > PortMax
        THEN "invalid port configured"
    ELSE IF Len(config.CallbackPath) < 2 \/ config.CallbackPath[1] # "/"
        THEN "invalid callback path configured"
    ELSE IF config.ClientID = ""
        THEN "client ID not configured"
    ELSE IF config.UserInfo /\ config.UserInfoEndpoint = ""
        THEN "missing UserInfoEndpoint configuration"
    ELSE IF config.State = ""
        THEN "empty state string configured"
    ELSE ""

-----------------------------------------------------------------------------
(* State *)

VARIABLES
    mainPc,      \* where the main goroutine stands
    proc,        \* the process: running, exited (with a code) or killed by a signal
    appConfig,   \* var appConfig AppConfig
    exitCode,    \* var exitCode int
    serverExit,  \* var serverExit: "placeholder" or "armed" (sends on stop)
    notify,      \* signal.Notify(stop, os.Interrupt) has been called
    stop,        \* the stop channel's buffer
    listener,    \* the ListenAndServe goroutine and its listener
    handlers,    \* the bag of callback handler goroutines
    mainRun,     \* what the main goroutine did: network calls, output, diagnostics
    sigints,     \* SIGINTs delivered so far
    served,      \* the response to the last request on /login or the index route
    args,        \* the command line: for each flag <<>> (not given) or <<value>>
    environ      \* the environment: for each O2TOKEN_ variable <<>> (unset or empty) or <<value>>

vars ==
    <<mainPc, proc, appConfig, exitCode, serverExit, notify, stop, listener, handlers, mainRun, sigints,
      served, args, environ>>

Running == proc.state = "running"

\* what fetchMetadataDocument can return in this run: it is called only when a
\* metadata endpoint is given
FetchedDocuments ==
    IF FlagValues(args, environ).MetadataEndpoint = "" THEN {EmptyMetadata} ELSE MetadataDocuments

\* os.Exit(code) called from `via`
Exited(code, via) == [state |-> "exited", code |-> code, via |-> via]

HandlerSet == BagToSet(handlers)

\* a handler goroutine that has not returned
InFlight == {s \in HandlerSet : s.pc # "done"}

\* the handler in local state s moves to local state t
Replace(s, t) == handlers' = (handlers (-) SetToBag({s})) (+) SetToBag({t})

\* the number of occurrences of event e in trace tr
RECURSIVE Count(_, _)
Count(tr, e) ==
    IF tr = <<>> THEN 0 ELSE (IF Head(tr) = e THEN 1 ELSE 0) + Count(Tail(tr), e)

\* no request has been served on /login or the index route
NoPage == [route |-> "", status |-> 0, location |-> <<>>, body |-> ""]

Init ==
    /\ mainPc = "init"
    /\ proc = [state |-> "running", code |-> 0, via |-> ""]
    /\ appConfig = ZeroConfig
    /\ exitCode = 0
    /\ serverExit = "placeholder"
    /\ notify = FALSE
    /\ stop = <<>>
    /\ listener = "none"
    /\ handlers = EmptyBag
    /\ mainRun = [res |-> NoResponse, tokens |-> nothing, err |-> NoErr, posts |-> <<>>,
                  trace |-> <<>>, printed |-> <<>>, diag |-> {}]
    /\ sigints = 0
    /\ served = NoPage
    /\ \E in \in ConfigInputs : args = ArgsOf(in)
    /\ environ = NoEnviron

-----------------------------------------------------------------------------
(* Token Exchange Client: oidc.go *)

\* fmt.Sprintf("http://localhost:%v%v", appConfig.Port, appConfig.CallbackPath)
RedirectUri == [prefix |-> "http://localhost:", port |-> appConfig.Port, path |-> appConfig.CallbackPath]

\* the form parameters of the two grants
CodeParams(code) ==
    [grant_type |-> "authorization_code",
     redirect_uri |-> RedirectUri,
     client_id |-> appConfig.ClientID,
     client_secret |-> appConfig.ClientSecret,
     code |-> code]

\* redeemTokensWithRefreshToken sending the redirect_uri of the code grant too
RefreshParams_WithRedirect(token) ==
    [grant_type |-> "refresh_token",
     redirect_uri |-> RedirectUri,
     client_id |-> appConfig.ClientID,
     client_secret |-> appConfig.ClientSecret,
     refresh_token |-> token]

RefreshParams(token) ==
    [grant_type |-> "refresh_token",
     client_id |-> appConfig.ClientID,
     client_secret |-> appConfig.ClientSecret,
     refresh_token |-> token]

\* redeemTokens with the empty-access-token check left out
redeemTokens_NoEmptyCheck(res) ==
    IF ~res.sent
        THEN [tokens |-> nothing, err |-> [kind |-> "send", raw |-> ""]]
    ELSE LET dec == Unmarshal(res.body)
         IN  IF ~dec.ok
                 THEN [tokens |-> nothing, err |-> [kind |-> "parse", raw |-> ""]]
             ELSE [tokens |-> dec.tokens, err |-> NoErr]

\* redeemTokens reporting a request that could not be sent as a decode failure
redeemTokens_SendAsParse(res) ==
    LET dec == Unmarshal(res.body)
    IN  IF ~res.sent \/ ~dec.ok
            THEN [tokens |-> nothing, err |-> [kind |-> "parse", raw |-> ""]]
        ELSE IF dec.tokens.access_token = ""
            THEN [tokens |-> nothing, err |-> [kind |-> "no_access_token", raw |-> res.body]]
        ELSE [tokens |-> dec.tokens, err |-> NoErr]

\* redeemTokens rejecting every response whose status is not 200 OK
redeemTokens_CheckStatus(res) ==
    IF ~res.sent
        THEN [tokens |-> nothing, err |-> [kind |-> "send", raw |-> ""]]
    ELSE IF res.status # StatusOK
        THEN [tokens |-> nothing, err |-> [kind |-> "status", raw |-> res.body]]
    ELSE LET dec == Unmarshal(res.body)
         IN  IF ~dec.ok
                 THEN [tokens |-> nothing, err |-> [kind |-> "parse", raw |-> ""]]
             ELSE IF dec.tokens.access_token = ""
                 THEN [tokens |-> nothing, err |-> [kind |-> "no_access_token", raw |-> res.body]]
             ELSE [tokens |-> dec.tokens, err |-> NoErr]

\* redeemTokens, given what httpClient.Do returned: the token set and the error.
\* The HTTP status is never read. (The token endpoints drawn are well-formed
\* URLs, so http.NewRequest does not fail.)
redeemTokens(res) ==
    IF ~res.sent
        THEN [tokens |-> nothing, err |-> [kind |-> "send", raw |-> ""]]
    ELSE LET dec == Unmarshal(res.body)
         IN  IF ~dec.ok
                 THEN [tokens |-> nothing, err |-> [kind |-> "parse", raw |-> ""]]
             ELSE IF dec.tokens.access_token = ""
                 THEN [tokens |-> nothing, err |-> [kind |-> "no_access_token", raw |-> res.body]]
             ELSE [tokens |-> dec.tokens, err |-> NoErr]

\* WithUserInfo without the WARNING line on a failed fetch
WithUserInfo_NoWarning(r, ui) ==
    IF ~appConfig.UserInfo THEN r
    ELSE [r EXCEPT !.trace = Append(@, "GET userinfo"),
                   !.tokens.userinfo = IF ui = "ok" THEN "object" ELSE "nil"]

\* tokens.UserInfo, err = fetchUserInfo(tokens.AccessToken), when enabled:
\* the run r with the fetch recorded; a failure only logs a warning
WithUserInfo(r, ui) ==
    IF ~appConfig.UserInfo THEN r
    ELSE [r EXCEPT !.trace = Append(@, "GET userinfo"),
                   !.tokens.userinfo = IF ui = "ok" THEN "object" ELSE "nil",
                   !.diag = IF ui = "ok" THEN @ ELSE @ \cup {<<"WARNING: ", "could not fetch userinfo">>}]

UserInfoChoices == IF appConfig.UserInfo THEN UserInfoOutcomes ELSE {"skipped"}

-----------------------------------------------------------------------------
(* Flow Orchestrator: oauth2CodeCallback, one goroutine per request *)

\* a callback request: whether r.ParseForm() fails, and the form values
\* ("" for a parameter that is empty or missing)
Requests ==
    {[parseErr |-> FALSE, code |-> c, state |-> st] : c \in {"", "XYZ123"}, st \in {appConfig.State, "evil"}}
    \cup {[parseErr |-> TRUE, code |-> "XYZ123", state |-> "evil"]}

\* a handler goroutine entering oauth2CodeCallback with request r
NewHandler(r) ==
    [pc |-> "entry", req |-> r, branch |-> "", w |-> [status |-> 0, body |-> <<>>],
     res |-> NoResponse, tokens |-> nothing, err |-> NoErr, seCode |-> 0,
     posts |-> <<>>, trace |-> <<>>, printed |-> <<>>, diag |-> {}]

\* softExit(code) is entered: the handler stands before `exitCode = code`
EnterSoftExit(s, code) ==
    [s EXCEPT !.pc = "se_write", !.seCode = code, !.trace = Append(@, "softExit")]

\* fmt.Sprintf("ERROR: %v: %v", label, err): the pieces of the message
Msg(label, err) == <<"ERROR: ", label, ": ">> \o err

\* reportErrorAndSoftExit that calls softExit before it writes the response
reportErrorAndSoftExit_ExitFirst(s, label, err, code) ==
    [EnterSoftExit(s, code) EXCEPT !.w = [status |-> code, body |-> Msg(label, err)],
                                   !.trace = Append(@, "respond"), !.diag = @ \cup {Msg(label, err)}]

\* reportErrorAndSoftExit that reports and returns without softExit
reportErrorAndSoftExit_NoExit(s, label, err, code) ==
    [s EXCEPT !.pc = "done", !.w = [status |-> code, body |-> Msg(label, err)],
              !.trace = Append(@, "respond"), !.diag = @ \cup {Msg(label, err)}]

\* reportErrorAndSoftExit that asks for exit code 1 whatever the HTTP status is
reportErrorAndSoftExit_ExitOne(s, label, err, code) ==
    EnterSoftExit([s EXCEPT !.w = [status |-> code, body |-> Msg(label, err)],
                            !.trace = Append(@, "respond"), !.diag = @ \cup {Msg(label, err)}],
                  1)

\* reportErrorAndSoftExit(label, err, code, w) with w != nil: the status and the
\* message are written to the response, the message to stderr, then softExit(code)
reportErrorAndSoftExit(s, label, err, code) ==
    EnterSoftExit([s EXCEPT !.w = [status |-> code, body |-> Msg(label, err)],
                            !.trace = Append(@, "respond"), !.diag = @ \cup {Msg(label, err)}],
                  code)

\* the outcome of the request checks: the branch taken, and the label and the
\* error it reports
Passed == [branch |-> "", label |-> "", err |-> <<>>]
ParseFailure ==
    [branch |-> "parse failure", label |-> "could not parse query in callback",
     err |-> <<"invalid URL escape">>]
MissingCode ==
    [branch |-> "missing code", label |-> "oath2 flow error", err |-> <<"missing 'code' parameter">>]
StateMismatch(r) ==
    [branch |-> "state mismatch", label |-> "unexpected state parameter value in callback",
     err |-> <<"expected: ", appConfig.State, ", got: ", r.state>>]

\* the request checks without the state comparison
CheckCallback_NoStateCheck(r) ==
    IF r.parseErr THEN ParseFailure
    ELSE IF r.code = "" THEN MissingCode
    ELSE Passed

\* the request checks without the code check
CheckCallback_NoCodeCheck(r) ==
    IF r.parseErr THEN ParseFailure
    ELSE IF r.state # appConfig.State THEN StateMismatch(r)
    ELSE Passed

\* the request checks with the state compared before the code
CheckCallback_StateFirst(r) ==
    IF r.parseErr THEN ParseFailure
    ELSE IF r.state # appConfig.State THEN StateMismatch(r)
    ELSE IF r.code = "" THEN MissingCode
    ELSE Passed

\* the checks oauth2CodeCallback makes on the request, in its order: ParseForm,
\* then the code, then the state
CheckCallback(r) ==
    IF r.parseErr THEN ParseFailure
    ELSE IF r.code = "" THEN MissingCode
    ELSE IF r.state # appConfig.State THEN StateMismatch(r)
    ELSE Passed

\* the text of the error redeemTokens returned
ErrText(err) ==
    CASE err.kind = "send" -> <<"could not send HTTP request to redeem tokens">>
      [] err.kind = "parse" -> <<"could not parse JSON response for redeemed tokens">>
      [] err.kind = "no_access_token" -> <<"no access token received, raw response: ", err.raw>>
      [] OTHER -> <<>>

\* the code softExit gets after printTokens: 1 on an output error, else 0
OutputExitCode(printed) == IF printed = "error" THEN 1 ELSE 0

\* The server dispatches a callback request to a new goroutine, which runs
\* oauth2CodeCallback up to its first blocking point: a failed check is reported
\* (HTTP 400) and softExit is entered, a request that passes goes on to the
\* token exchange.
oauth2CodeCallback(r) ==
    /\ Running
    /\ listener = "listening"
    /\ BagCardinality(handlers) < MaxRequests
    /\ LET s == NewHandler(r)
           e == CheckCallback(r)
           t == IF e # Passed
                   THEN reportErrorAndSoftExit([s EXCEPT !.branch = e.branch], e.label, e.err,
                                               StatusBadRequest)
                ELSE [s EXCEPT !.pc = "redeem"]
       IN  handlers' = handlers (+) SetToBag({t})
    /\ UNCHANGED <<mainPc, proc, appConfig, exitCode, serverExit, notify, stop, listener, mainRun, sigints, served, args, environ>>

\* tokens, err := redeemTokensWithCode(code): the POST and its outcome
RedeemWithCode(s, res) ==
    /\ Running
    /\ s.pc = "redeem"
    /\ LET out == redeemTokens(res)
       IN  Replace(s, [s EXCEPT !.pc = "redeemed", !.res = res, !.tokens = out.tokens,
                                !.err = out.err, !.posts = Append(@, CodeParams(s.req.code)),
                                !.trace = Append(@, "POST token")])
    /\ UNCHANGED <<mainPc, proc, appConfig, exitCode, serverExit, notify, stop, listener, mainRun, sigints, served, args, environ>>

\* a callback that ends the process itself on an exchange failure
ExchangeFailed_DirectExit(s) ==
    /\ Running
    /\ s.pc = "redeemed"
    /\ s.err # NoErr
    /\ proc' = Exited(1, "handler")
    /\ Replace(s, [s EXCEPT !.res = NoResponse, !.branch = "exchange failure"])
    /\ UNCHANGED <<mainPc, appConfig, exitCode, serverExit, notify, stop, listener, mainRun, sigints, served, args, environ>>

\* a callback that prints the token set it holds before it reports the
\* exchange failure
ExchangeFailed_Prints(s) ==
    /\ Running
    /\ s.pc = "redeemed"
    /\ s.err # NoErr
    /\ Replace(s, reportErrorAndSoftExit([s EXCEPT !.res = NoResponse, !.branch = "exchange failure",
                                                  !.printed = Append(@, s.tokens),
                                                  !.trace = Append(@, "print")],
                                         "oath2 flow error", ErrText(s.err), StatusInternalServerError))
    /\ UNCHANGED <<mainPc, proc, appConfig, exitCode, serverExit, notify, stop, listener, mainRun, sigints, served, args, environ>>

\* if err != nil: the exchange failure is reported (HTTP 500) and softExit entered
ExchangeFailed(s) ==
    /\ Running
    /\ s.pc = "redeemed"
    /\ s.err # NoErr
    /\ Replace(s, reportErrorAndSoftExit([s EXCEPT !.res = NoResponse, !.branch = "exchange failure"],
                                         "oath2 flow error", ErrText(s.err), StatusInternalServerError))
    /\ UNCHANGED <<mainPc, proc, appConfig, exitCode, serverExit, notify, stop, listener, mainRun, sigints, served, args, environ>>

\* the exchange succeeded: the optional userinfo fetch, the redirect to the
\* success page, printTokens, then softExit(1) on an output error, else softExit(0)
CompleteFlow(s, ui, printed) ==
    /\ Running
    /\ s.pc = "redeemed"
    /\ s.err = NoErr
    /\ LET s1 == WithUserInfo([s EXCEPT !.res = NoResponse], ui)
           s2 == [s1 EXCEPT !.w = [status |-> StatusFound, body |-> <<"/success.html">>],
                            !.trace = Append(@, "respond")]
           s3 == IF printed = "error"
                     THEN [s2 EXCEPT !.branch = "output failure", !.diag = @ \cup {<<"ERROR: Output error">>}]
                     ELSE [s2 EXCEPT !.branch = "success", !.printed = Append(@, s2.tokens),
                                     !.trace = Append(@, "print")]
       IN  Replace(s, EnterSoftExit(s3, OutputExitCode(printed)))
    /\ UNCHANGED <<mainPc, proc, appConfig, exitCode, serverExit, notify, stop, listener, mainRun, sigints, served, args, environ>>

-----------------------------------------------------------------------------
(* The other routes of the server: /login (startFlow) and the index route    *)
(* (serveEmbeddedPage), which the mux gives every path that is neither the   *)
(* callback path nor /login                                                   *)

\* url.QueryEscape on the scope: a space becomes "+", a comma "%2C"
RECURSIVE QueryEscape(_)
QueryEscape(s) ==
    IF s = <<>> THEN <<>>
    ELSE <<CASE Head(s) = " " -> "+" [] Head(s) = "," -> "%2C" [] OTHER -> Head(s)>>
         \o QueryEscape(Tail(s))

\* the URL startFlow redirects to: the authorization endpoint and the query
\* parameters it is given
AuthorizationUrl ==
    [endpoint |-> appConfig.AuthEndpoint,
     query |-> [client_id |-> appConfig.ClientID,
                redirect_uri |-> RedirectUri,
                scope |-> QueryEscape(appConfig.Scope),
                response_type |-> "code",
                state |-> appConfig.State]]

\* a startFlow that requests soft-exit after the redirect, as the callback does
startFlow_SoftExit ==
    /\ Running
    /\ listener = "listening"
    /\ Len(stop) < StopCap
    /\ served' = [route |-> "/login", status |-> StatusFound, location |-> AuthorizationUrl, body |-> ""]
    /\ exitCode' = 0
    /\ stop' = Append(stop, "SIGINT")
    /\ UNCHANGED <<mainPc, proc, appConfig, serverExit, notify, listener, handlers, mainRun, sigints, args, environ>>

\* GET /login: http.Redirect(w, r, url, http.StatusFound)
startFlow ==
    /\ Running
    /\ listener = "listening"
    /\ served' = [route |-> "/login", status |-> StatusFound, location |-> AuthorizationUrl, body |-> ""]
    /\ UNCHANGED <<mainPc, proc, appConfig, exitCode, serverExit, notify, stop, listener, handlers, mainRun, sigints, args, environ>>

\* the paths requested on the index route
indexPath == "/"
PagePaths == {indexPath, "/success.html", "/success", "/favicon.ico"}

\* serveEmbeddedPage, as a function of r.URL.Path: the index page, or 404
EmbeddedPage(path) ==
    IF path = indexPath
        THEN [route |-> path, status |-> StatusOK, location |-> <<>>, body |-> "html/index.html"]
        ELSE [route |-> path, status |-> StatusNotFound, location |-> <<>>, body |-> ""]

\* GET of a path on the index route
serveEmbeddedPage(path) ==
    /\ Running
    /\ listener = "listening"
    /\ served' = EmbeddedPage(path)
    /\ UNCHANGED <<mainPc, proc, appConfig, exitCode, serverExit, notify, stop, listener, handlers, mainRun, sigints, args, environ>>

-----------------------------------------------------------------------------
(* Process Lifecycle Controller: softExit, statement by statement (exitCode *)
(* and serverExit are shared with the main goroutine without any lock)    *)

\* exitCode = code
SoftExitWrite(s) ==
    /\ Running
    /\ s.pc = "se_write"
    /\ exitCode' = s.seCode
    /\ Replace(s, [s EXCEPT !.pc = "se_clamp"])
    /\ UNCHANGED <<mainPc, proc, appConfig, serverExit, notify, stop, listener, mainRun, sigints, served, args, environ>>

\* the range test with the test for negative codes left out
OutOfRange_UpperOnly(code) == code > ExitCodeMax

\* code > 125 || code < 0
OutOfRange(code) == code > ExitCodeMax \/ code < 0

\* if code > 125 || code < 0 { exitCode = 125 }
SoftExitClamp(s) ==
    /\ Running
    /\ s.pc = "se_clamp"
    /\ exitCode' = IF OutOfRange(s.seCode) THEN ExitCodeMax ELSE exitCode
    /\ Replace(s, [s EXCEPT !.pc = "se_call"])
    /\ UNCHANGED <<mainPc, proc, appConfig, serverExit, notify, stop, listener, mainRun, sigints, served, args, environ>>

\* a placeholder that ends the process with the recorded code: os.Exit(exitCode)
ServerExitPlaceholder_ExitCode(s) ==
    /\ Running
    /\ s.pc = "se_call"
    /\ serverExit = "placeholder"
    /\ proc' = Exited(exitCode, "serverExit")
    /\ UNCHANGED <<mainPc, appConfig, exitCode, serverExit, notify, stop, listener, handlers, mainRun, sigints, served, args, environ>>

\* serverExit() while it is the placeholder: os.Exit(1)
ServerExitPlaceholder(s) ==
    /\ Running
    /\ s.pc = "se_call"
    /\ serverExit = "placeholder"
    /\ proc' = Exited(1, "serverExit")
    /\ UNCHANGED <<mainPc, appConfig, exitCode, serverExit, notify, stop, listener, handlers, mainRun, sigints, served, args, environ>>

\* a serverExit that returns without sending
ServerExitSend_NoSend(s) ==
    /\ Running
    /\ s.pc = "se_call"
    /\ serverExit = "armed"
    /\ Replace(s, [s EXCEPT !.pc = "done"])
    /\ UNCHANGED <<mainPc, proc, appConfig, exitCode, serverExit, notify, stop, listener, mainRun, sigints, served, args, environ>>

\* a serverExit that closes the listener itself instead of waking main
ServerExitSend_Shutdown(s) ==
    /\ Running
    /\ s.pc = "se_call"
    /\ serverExit = "armed"
    /\ listener' = "closed"
    /\ Replace(s, [s EXCEPT !.pc = "done"])
    /\ UNCHANGED <<mainPc, proc, appConfig, exitCode, serverExit, notify, stop, mainRun, sigints, served, args, environ>>

\* serverExit() once armed: stop <- syscall.SIGINT, which blocks while the
\* buffer is full; then softExit and the handler return
ServerExitSend(s) ==
    /\ Running
    /\ s.pc = "se_call"
    /\ serverExit = "armed"
    /\ Len(stop) < StopCap
    /\ stop' = Append(stop, "SIGINT")
    /\ Replace(s, [s EXCEPT !.pc = "done"])
    /\ UNCHANGED <<mainPc, proc, appConfig, exitCode, serverExit, notify, listener, mainRun, sigints, served, args, environ>>

-----------------------------------------------------------------------------
(* main and serveAuthCodeFlow: the main goroutine *)

\* an initializeAppConfig that fetches a metadata document in every run
MetadataFetch_Always(in) == <<"GET metadata">>

\* the network activity of initializeAppConfig: fetchMetadataDocument is called
\* when a metadata endpoint is given, whatever the other inputs are
MetadataFetch(in) == IF in.MetadataEndpoint # "" THEN <<"GET metadata">> ELSE <<>>

\* appConfig, err = initializeAppConfig(); if err != nil { os.Exit(1) }.
\* The metadata document is fetched before the validation.
InitializeAppConfig(idpMeta) ==
    /\ Running
    /\ mainPc = "init"
    /\ LET in == FlagValues(args, environ)
           config == BuildConfig(in, idpMeta)
           err == ValidateConfig(config)
           fetched == MetadataFetch(in)
       IN  /\ appConfig' = config
           /\ IF err # ""
                 THEN /\ proc' = Exited(1, "config")
                      /\ mainRun' = [mainRun EXCEPT !.trace = @ \o fetched,
                                                    !.diag = @ \cup {<<"ERROR: invalid/incomplete application configuration">>}]
                      /\ UNCHANGED mainPc
                 ELSE /\ mainPc' = "flow"
                      /\ mainRun' = [mainRun EXCEPT !.trace = @ \o fetched]
                      /\ UNCHANGED proc
    /\ UNCHANGED <<exitCode, serverExit, notify, stop, listener, handlers, sigints, served, args, environ>>

\* a main that ignores the refresh token
FlowBranch_NoRefresh(config) ==
    IF config.ClientCredFlow THEN "clientcred" ELSE "authcode"

\* the flow main selects
FlowBranch(config) ==
    IF config.ClientCredFlow THEN "clientcred"
    ELSE IF config.RefreshToken # "" THEN "refresh"
    ELSE "authcode"

\* err := clientCredFlow(); if err != nil { os.Exit(1) }. The function is not
\* part of the sources: it either fails or returns, and main goes on to its
\* deferred os.Exit(exitCode).
ClientCredFlow(failed) ==
    /\ Running
    /\ mainPc = "flow"
    /\ FlowBranch(appConfig) = "clientcred"
    /\ mainRun' = [mainRun EXCEPT !.trace = Append(@, "clientCredFlow"),
                                  !.diag = IF failed THEN @ \cup {<<"ERROR: client credentials flow failed">>} ELSE @]
    /\ IF failed
          THEN proc' = Exited(1, "clientcred") /\ UNCHANGED mainPc
          ELSE mainPc' = "return" /\ UNCHANGED proc
    /\ UNCHANGED <<appConfig, exitCode, serverExit, notify, stop, listener, handlers, sigints, served, args, environ>>

\* err := refreshTokens(appConfig.RefreshToken); if err != nil { os.Exit(1) }
RefreshFlow(res, ui, printed) ==
    /\ Running
    /\ mainPc = "flow"
    /\ FlowBranch(appConfig) = "refresh"
    /\ LET out == redeemTokens(res)
           r1 == [mainRun EXCEPT !.res = res, !.tokens = out.tokens, !.err = out.err,
                                 !.posts = Append(@, RefreshParams(appConfig.RefreshToken)),
                                 !.trace = Append(@, "POST token")]
           r2 == WithUserInfo(r1, ui)
       IN  IF out.err # NoErr
              THEN /\ mainRun' = [r1 EXCEPT !.diag = @ \cup {<<"ERROR: token refresh failed">>}]
                   /\ proc' = Exited(1, "refresh")
                   /\ UNCHANGED mainPc
           ELSE IF printed = "error"
              THEN /\ mainRun' = [r2 EXCEPT !.err = [kind |-> "output", raw |-> ""],
                                            !.diag = @ \cup {<<"ERROR: token refresh failed">>}]
                   /\ proc' = Exited(1, "refresh")
                   /\ UNCHANGED mainPc
           ELSE /\ mainRun' = [r2 EXCEPT !.printed = Append(@, r2.tokens), !.trace = Append(@, "print")]
                /\ mainPc' = "return"
                /\ UNCHANGED proc
    /\ UNCHANGED <<appConfig, exitCode, serverExit, notify, stop, listener, handlers, sigints, served, args, environ>>

\* serveAuthCodeFlow up to the two go statements: the routes are registered and
\* the ListenAndServe goroutine is started (the browser goroutine only prints)
ServeAuthCodeFlow ==
    /\ Running
    /\ mainPc = "flow"
    /\ FlowBranch(appConfig) = "authcode"
    /\ listener' = "starting"
    /\ mainPc' = "notify"
    /\ UNCHANGED <<proc, appConfig, exitCode, serverExit, notify, stop, handlers, mainRun, sigints, served, args, environ>>

\* stop := make(chan os.Signal, 1); signal.Notify(stop, os.Interrupt)
SignalNotify ==
    /\ Running
    /\ mainPc = "notify"
    /\ notify' = TRUE
    /\ mainPc' = "arm"
    /\ UNCHANGED <<proc, appConfig, exitCode, serverExit, stop, listener, handlers, mainRun, sigints, served, args, environ>>

\* serverExit = func() { stop <- syscall.SIGINT }
ArmServerExit ==
    /\ Running
    /\ mainPc = "arm"
    /\ serverExit' = "armed"
    /\ mainPc' = "wait"
    /\ UNCHANGED <<proc, appConfig, exitCode, notify, stop, listener, handlers, mainRun, sigints, served, args, environ>>

\* <-stop
ReceiveStop ==
    /\ Running
    /\ mainPc = "wait"
    /\ stop # <<>>
    /\ stop' = Tail(stop)
    /\ mainPc' = "shutdown"
    /\ UNCHANGED <<proc, appConfig, exitCode, serverExit, notify, listener, handlers, mainRun, sigints, served, args, environ>>

\* server.Shutdown(ctx) is called: the listener is closed, no request is
\* accepted any more, and Shutdown waits for the handlers in flight
ShutdownStart ==
    /\ Running
    /\ mainPc = "shutdown"
    /\ listener' = IF listener = "failed" THEN "failed" ELSE "closed"
    /\ mainPc' = "draining"
    /\ UNCHANGED <<proc, appConfig, exitCode, serverExit, notify, stop, handlers, mainRun, sigints, served, args, environ>>

\* Shutdown returns nil: no handler is in flight
ShutdownDone ==
    /\ Running
    /\ mainPc = "draining"
    /\ InFlight = {}
    /\ mainPc' = "return"
    /\ UNCHANGED <<proc, appConfig, exitCode, serverExit, notify, stop, listener, handlers, mainRun, sigints, served, args, environ>>

\* a serveAuthCodeFlow that treats the expiry as fatal: it reports it and
\* ends the process at once with os.Exit(1)
ShutdownTimeout_Fatal ==
    /\ Running
    /\ mainPc = "draining"
    /\ InFlight # {}
    /\ mainRun' = [mainRun EXCEPT !.diag = @ \cup {<<"Unexpected error when closing server">>}]
    /\ proc' = Exited(1, "shutdown")
    /\ UNCHANGED <<mainPc, appConfig, exitCode, serverExit, notify, stop, listener, handlers, sigints, served, args, environ>>

\* the 15 seconds of ctx expire with a handler still in flight: Shutdown
\* returns the context's error, which is printed
ShutdownTimeout ==
    /\ Running
    /\ mainPc = "draining"
    /\ InFlight # {}
    /\ mainRun' = [mainRun EXCEPT !.diag = @ \cup {<<"Unexpected error when closing server">>}]
    /\ mainPc' = "return"
    /\ UNCHANGED <<proc, appConfig, exitCode, serverExit, notify, stop, listener, handlers, sigints, served, args, environ>>

\* main returns: defer func() { os.Exit(exitCode) }()
MainExit ==
    /\ Running
    /\ mainPc = "return"
    /\ proc' = Exited(exitCode, "main")
    /\ UNCHANGED <<mainPc, appConfig, exitCode, serverExit, notify, stop, listener, handlers, mainRun, sigints, served, args, environ>>

-----------------------------------------------------------------------------
(* The ListenAndServe goroutine and the environment *)

\* server.ListenAndServe() binds the port and serves
ListenOk ==
    /\ Running
    /\ listener = "starting"
    /\ listener' = "listening"
    /\ UNCHANGED <<mainPc, proc, appConfig, exitCode, serverExit, notify, stop, handlers, mainRun, sigints, served, args, environ>>

\* server.ListenAndServe() returns an error other than ErrServerClosed (the
\* port cannot be bound): the goroutine prints it and ends
ListenFail ==
    /\ Running
    /\ listener = "starting"
    /\ listener' = "failed"
    /\ mainRun' = [mainRun EXCEPT !.diag = @ \cup {<<"ERROR: Unexpected error from HTTP server">>}]
    /\ UNCHANGED <<mainPc, proc, appConfig, exitCode, serverExit, notify, stop, handlers, sigints, served, args, environ>>

\* an external SIGINT: once signal.Notify has run it is put on the stop channel
\* (dropped when the buffer is full), before that it kills the process
Sigint ==
    /\ Running
    /\ sigints < MaxSigint
    /\ sigints' = sigints + 1
    /\ IF notify
          THEN /\ stop' = IF Len(stop) < StopCap THEN Append(stop, "SIGINT") ELSE stop
               /\ UNCHANGED proc
          ELSE /\ proc' = [state |-> "killed", code |-> 0, via |-> "SIGINT"]
               /\ UNCHANGED stop
    /\ UNCHANGED <<mainPc, appConfig, exitCode, serverExit, notify, listener, handlers, mainRun, served, args, environ>>

-----------------------------------------------------------------------------
(* Specifications *)

MainStep ==
    \/ \E idpMeta \in FetchedDocuments : InitializeAppConfig(idpMeta)
    \/ \E failed \in BOOLEAN : ClientCredFlow(failed)
    \/ \E res \in Responses, ui \in UserInfoChoices, printed \in PrintOutcomes : RefreshFlow(res, ui, printed)
    \/ ServeAuthCodeFlow
    \/ SignalNotify
    \/ ArmServerExit
    \/ ReceiveStop
    \/ ShutdownStart
    \/ ShutdownDone
    \/ ShutdownTimeout
    \/ MainExit

ListenerStep == ListenOk \/ ListenFail

CallbackStep ==
    \/ \E r \in Requests : oauth2CodeCallback(r)
    \/ \E s \in HandlerSet, res \in Responses : RedeemWithCode(s, res)
    \/ \E s \in HandlerSet : ExchangeFailed(s)
    \/ \E s \in HandlerSet, ui \in UserInfoChoices, printed \in PrintOutcomes : CompleteFlow(s, ui, printed)

SoftExitStep ==
    \/ \E s \in HandlerSet : SoftExitWrite(s)
    \/ \E s \in HandlerSet : SoftExitClamp(s)
    \/ \E s \in HandlerSet : ServerExitPlaceholder(s)
    \/ \E s \in HandlerSet : ServerExitSend(s)

Next == MainStep \/ ListenerStep \/ CallbackStep \/ SoftExitStep \/ Sigint

Spec == Init /\ [][Next]_vars

\* The Go scheduler runs every runnable goroutine: the main goroutine and a
\* handler inside softExit keep taking their steps. Nothing is assumed of the
\* network (no timeout is set on the token exchange) nor of the environment.
FairSpec == Spec /\ WF_vars(MainStep) /\ WF_vars(SoftExitStep)

\* softExit(c) on its own: one handler calls softExit(c), for a code c drawn
\* from SoftExitCodes, on a listening server whose main goroutine waits on stop
SoftExitCodes == (-MaxCode .. MaxCode) \cup {200, StatusBadRequest, StatusInternalServerError}

InitSoftExit ==
    /\ mainPc = "wait"
    /\ proc = [state |-> "running", code |-> 0, via |-> ""]
    /\ appConfig = BuildConfig(BaseInput, EmptyMetadata)
    /\ exitCode = 0
    /\ serverExit = "armed"
    /\ notify = TRUE
    /\ stop = <<>>
    /\ listener = "listening"
    /\ \E c \in SoftExitCodes :
         handlers = SetToBag({EnterSoftExit([NewHandler([parseErr |-> FALSE, code |-> "", state |-> ""])
                                               EXCEPT !.branch = "softExit"], c)})
    /\ mainRun = [res |-> NoResponse, tokens |-> nothing, err |-> NoErr, posts |-> <<>>,
                  trace |-> <<>>, printed |-> <<>>, diag |-> {}]
    /\ sigints = 0
    /\ served = NoPage
    /\ args = ArgsOf(BaseInput)
    /\ environ = NoEnviron

NextSoftExit ==
    \/ \E s \in HandlerSet : SoftExitWrite(s)
    \/ \E s \in HandlerSet : SoftExitClamp(s)
    \/ \E s \in HandlerSet : ServerExitSend(s)
    \/ ReceiveStop
    \/ ShutdownStart
    \/ ShutdownDone
    \/ ShutdownTimeout
    \/ MainExit
    \/ Sigint

SpecSoftExit == InitSoftExit /\ [][NextSoftExit]_vars

\* The server without callback requests: the main goroutine from the start of
\* serveAuthCodeFlow to its exit, the listener, /login and the index route, for
\* the configurations that select the authorization-code flow
RouteInputs == {in \in FlowInputs \cup PkceInputs : ~in.ClientCredFlow /\ in.RefreshToken = ""}

InitRoutes ==
    /\ mainPc = "flow"
    /\ proc = [state |-> "running", code |-> 0, via |-> ""]
    /\ \E in \in RouteInputs : args = ArgsOf(in) /\ appConfig = BuildConfig(in, EmptyMetadata)
    /\ exitCode = 0
    /\ serverExit = "placeholder"
    /\ notify = FALSE
    /\ stop = <<>>
    /\ listener = "none"
    /\ handlers = EmptyBag
    /\ mainRun = [res |-> NoResponse, tokens |-> nothing, err |-> NoErr, posts |-> <<>>,
                  trace |-> <<>>, printed |-> <<>>, diag |-> {}]
    /\ sigints = 0
    /\ served = NoPage
    /\ environ = NoEnviron

RouteStep ==
    \/ startFlow
    \/ \E path \in PagePaths : serveEmbeddedPage(path)

NextRoutes ==
    \/ ServeAuthCodeFlow
    \/ SignalNotify
    \/ ArmServerExit
    \/ ListenerStep
    \/ RouteStep
    \/ ReceiveStop
    \/ ShutdownStart
    \/ ShutdownDone
    \/ MainExit
    \/ Sigint

SpecRoutes == InitRoutes /\ [][NextRoutes]_vars

-----------------------------------------------------------------------------
(* The two requests on the wire. A text is a sequence of pieces: "&", "=",   *)
(* "+", " " and "," stand for themselves, every other piece for a run of     *)
(* characters that url.QueryEscape and the parsing of a query leave as they  *)
(* are once unescaped                                                        *)

\* fmt.Sprintf("http://localhost:%v%v", appConfig.Port, appConfig.CallbackPath)
UriText(u) == <<u.prefix, ToString(u.port)>> \o u.path

\* url.QueryEscape and url.QueryUnescape, piece by piece
EscapePiece(p) ==
    CASE p = "&" -> "%26" [] p = "=" -> "%3D" [] p = "+" -> "%2B"
      [] p = " " -> "+" [] p = "," -> "%2C" [] OTHER -> p
UnescapePiece(p) ==
    CASE p = "%26" -> "&" [] p = "%3D" -> "=" [] p = "%2B" -> "+"
      [] p = "+" -> " " [] p = "%2C" -> "," [] OTHER -> p
Escape(text) == [i \in 1 .. Len(text) |-> EscapePiece(text[i])]
Unescape(text) == [i \in 1 .. Len(text) |-> UnescapePiece(text[i])]

\* the query of the URL startFlow redirects to:
\* fmt.Sprintf("%v?client_id=%v&redirect_uri=%v&scope=%v&response_type=code&state=%v", ...)
\* with the scope escaped and every other value as it is
LocationQuery(loc) ==
    <<"client_id", "=", loc.query.client_id, "&", "redirect_uri", "=">>
        \o UriText(loc.query.redirect_uri)
        \o <<"&", "scope", "=">> \o loc.query.scope
        \o <<"&", "response_type", "=", loc.query.response_type, "&", "state", "=", loc.query.state>>

\* the body of the POST of the authorization-code grant: params.Encode(), the
\* parameters sorted by key, every value escaped
EncodeForm(params) ==
    <<"client_id", "=">> \o Escape(<<params.client_id>>)
        \o <<"&", "client_secret", "=">> \o Escape(<<params.client_secret>>)
        \o <<"&", "code", "=">> \o Escape(<<params.code>>)
        \o <<"&", "grant_type", "=">> \o Escape(<<params.grant_type>>)
        \o <<"&", "redirect_uri", "=">> \o Escape(UriText(params.redirect_uri))

\* the fields of a query: the text between the separators
RECURSIVE SplitAt(_, _)
SplitAt(text, sep) ==
    IF text = <<>> THEN <<<<>>>>
    ELSE LET rest == SplitAt(Tail(text), sep)
         IN  IF Head(text) = sep THEN <<<<>>>> \o rest
             ELSE <<<<Head(text)>> \o Head(rest)>> \o Tail(rest)

\* the value a query gives to key, as the receiver of the request reads it
\* (the parsing r.FormValue does on the callback): the text after "key=" in
\* the first field of that key, unescaped; <<>> when there is none
QueryValue(text, key) ==
    LET IsKey(f) == Len(f) >= 2 /\ f[1] = key /\ f[2] = "="
        fields == SelectSeq(SplitAt(text, "&"), IsKey)
    IN  IF fields = <<>> THEN <<>>
        ELSE Unescape(SubSeq(Head(fields), 3, Len(Head(fields))))

\* The authorization-code flow with /login and the callback together, for
\* valid configurations that differ in the port and the callback path
RedirectInputs ==
    {BaseInput,
     [BaseInput EXCEPT !.Port = DefaultPort, !.CallbackPath = DefaultCallbackPath],
     [BaseInput EXCEPT !.CallbackPath = <<"/", "cb", "&", "x">>],
     [BaseInput EXCEPT !.CallbackPath = <<"/", "cb", "+", "x">>]}

InitRedirect ==
    /\ mainPc = "flow"
    /\ proc = [state |-> "running", code |-> 0, via |-> ""]
    /\ \E in \in RedirectInputs : args = ArgsOf(in) /\ appConfig = BuildConfig(in, EmptyMetadata)
    /\ exitCode = 0
    /\ serverExit = "placeholder"
    /\ notify = FALSE
    /\ stop = <<>>
    /\ listener = "none"
    /\ handlers = EmptyBag
    /\ mainRun = [res |-> NoResponse, tokens |-> nothing, err |-> NoErr, posts |-> <<>>,
                  trace |-> <<>>, printed |-> <<>>, diag |-> {}]
    /\ sigints = 0
    /\ served = NoPage
    /\ environ = NoEnviron

NextRedirect == NextRoutes \/ CallbackStep \/ SoftExitStep \/ ShutdownTimeout

SpecRedirect == InitRedirect /\ [][NextRedirect]_vars

-----------------------------------------------------------------------------
\* initializeAppConfig alone, for command lines and environments that give one
\* parameter on the command line, in the environment, in both or in neither;
\* the endpoints and the client id are on the command line unless varied
BaseArgs ==
    [[f \in DOMAIN BaseInput |-> <<>>]
        EXCEPT !.AuthEndpoint = <<"https://idp.example/authorize">>,
               !.TokenEndpoint = <<"https://idp.example/token">>,
               !.ClientID = <<"abc">>]

\* the flags that have an O2TOKEN_ variable, by the type of their value
StringFlags ==
    {<<"AuthEndpoint", "O2TOKEN_AUTH_ENDPOINT">>, <<"ClientID", "O2TOKEN_CLIENT_ID">>,
     <<"ClientSecret", "O2TOKEN_CLIENT_SECRET">>, <<"MetadataEndpoint", "O2TOKEN_METADATA_ENDPOINT">>,
     <<"TokenEndpoint", "O2TOKEN_TOKEN_ENDPOINT">>, <<"RefreshToken", "O2TOKEN_REFRESH_TOKEN">>,
     <<"State", "O2TOKEN_STATE">>, <<"UserInfoEndpoint", "O2TOKEN_USERINFO_ENDPOINT">>}
SequenceFlags == {<<"CallbackPath", "O2TOKEN_CALLBACK_PATH">>, <<"Scope", "O2TOKEN_SCOPE">>}
BoolFlags ==
    {<<"Pkce", "O2TOKEN_PKCE">>, <<"Verbose", "O2TOKEN_VERBOSE">>, <<"UserInfo", "O2TOKEN_USERINFO">>}
UintFlags == {<<"Port", "O2TOKEN_PORT">>}
EnvFlags == StringFlags \cup SequenceFlags \cup BoolFlags \cup UintFlags

Scenario(p, given, envValue) ==
    [cli |-> [BaseArgs EXCEPT ![p[1]] = given], env |-> [NoEnviron EXCEPT ![p[2]] = envValue]]

FlagScenarios ==
    {Scenario(p, c, e) : p \in StringFlags, c \in {<<>>, <<"">>, <<"cli-value">>},
                         e \in {<<>>, <<"env-value">>}}
    \cup {Scenario(p, c, e) : p \in SequenceFlags, c \in {<<>>, <<<<>>>>, <<<<"/", "cli,value">>>>},
                              e \in {<<>>, <<<<"/", "env", ",", "value">>>>}}
    \cup {Scenario(p, c, e) : p \in BoolFlags, c \in {<<>>, <<TRUE>>, <<FALSE>>},
                              e \in {<<>>, <<"true">>, <<"0">>, <<"yes">>}}
    \cup {Scenario(p, c, e) : p \in UintFlags, c \in {<<>>, <<9000>>, <<0>>},
                              e \in {<<>>, <<<<"9", "0", "0", "1">>>>, <<<<"9", "k">>>>}}
    \cup {[cli |-> [BaseArgs EXCEPT !.Pkce = k, !.CodeVerifier = v, !.CodeChallenge = c], env |-> NoEnviron] :
              k \in {<<>>, <<TRUE>>, <<FALSE>>},
              v \in {<<>>, <<"">>, <<"given-verifier">>, <<VerifierA43>>},
              c \in {<<>>, <<"">>, <<"given-challenge">>}}

InitFlags ==
    /\ mainPc = "init"
    /\ proc = [state |-> "running", code |-> 0, via |-> ""]
    /\ appConfig = ZeroConfig
    /\ exitCode = 0
    /\ serverExit = "placeholder"
    /\ notify = FALSE
    /\ stop = <<>>
    /\ listener = "none"
    /\ handlers = EmptyBag
    /\ mainRun = [res |-> NoResponse, tokens |-> nothing, err |-> NoErr, posts |-> <<>>,
                  trace |-> <<>>, printed |-> <<>>, diag |-> {}]
    /\ sigints = 0
    /\ served = NoPage
    /\ \E sc \in FlagScenarios : args = sc.cli /\ environ = sc.env

NextFlags == \E idpMeta \in FetchedDocuments : InitializeAppConfig(idpMeta)

SpecFlags == InitFlags /\ [][NextFlags]_vars

(* Properties *)

\* the messages of the state-mismatch and the missing-code errors
StateMismatchError(r) == Msg(StateMismatch(r).label, StateMismatch(r).err)
MissingCodeError == Msg(MissingCode.label, MissingCode.err)

\* the handler has entered softExit (its request has been handled)
Handled(s) == s.pc \in {"se_write", "se_clamp", "se_call", "done"}

\* C1: a callback whose state parameter differs from the configured state
\* performs no token exchange, whatever its code: it never reaches
\* redeemTokensWithCode and no POST goes to the token endpoint.
C1_NoExchangeOnStateMismatch ==
    \A s \in HandlerSet :
        s.req.state # appConfig.State =>
            /\ s.pc \notin {"redeem", "redeemed"}
            /\ s.posts = <<>>
            /\ Count(s.trace, "POST token") = 0

\* a callback with a code and a wrong state has been handled to its end
C1_Witness ==
    \E s \in HandlerSet :
        /\ ~s.req.parseErr /\ s.req.code # "" /\ s.req.state # appConfig.State
        /\ s.pc = "done"

\* C2 (as claimed): a callback whose state parameter differs from the configured
\* state is answered with the state-mismatch error, also when its code is empty.
C2_AlwaysStateMismatch ==
    \A s \in HandlerSet :
        (~s.req.parseErr /\ s.req.state # appConfig.State) =>
            s.branch = "state mismatch" /\ s.w.body = StateMismatchError(s.req)

\* C2 (amended): a callback whose state parameter differs from the configured
\* state is always rejected with HTTP 400 and exit request 400; the error is
\* the state mismatch when the code is not empty, and the missing code when the
\* code is empty or missing, since the code is checked first.
C2_MismatchRejected ==
    \A s \in HandlerSet :
        (~s.req.parseErr /\ s.req.state # appConfig.State) =>
            /\ s.w.status = 400
            /\ s.seCode = 400
            /\ s.req.code # "" => s.branch = "state mismatch" /\ s.w.body = StateMismatchError(s.req)
            /\ s.req.code = "" => s.branch = "missing code" /\ s.w.body = MissingCodeError

\* a callback with a wrong state and no code has been answered
C2_Witness ==
    \E s \in HandlerSet :
        /\ ~s.req.parseErr /\ s.req.code = "" /\ s.req.state # appConfig.State
        /\ s.branch = "missing code"
        /\ Handled(s)

\* C3: a callback with an empty or missing code is answered with the
\* missing-code error, written to the HTTP response (status 400) and to stderr,
\* and makes no outbound call: no token exchange, no userinfo fetch.
C3_MissingCodeNoNetwork ==
    \A s \in HandlerSet :
        (~s.req.parseErr /\ s.req.code = "") =>
            /\ s.branch = "missing code"
            /\ s.w = [status |-> 400, body |-> MissingCodeError]
            /\ MissingCodeError \in s.diag
            /\ s.posts = <<>>
            /\ Count(s.trace, "POST token") = 0
            /\ Count(s.trace, "GET userinfo") = 0

\* a callback with the right state and no code has been handled to its end,
\* with the userinfo fetch enabled
C3_Witness ==
    \E s \in HandlerSet :
        /\ ~s.req.parseErr /\ s.req.code = "" /\ s.req.state = appConfig.State
        /\ appConfig.UserInfo
        /\ s.pc = "done"

\* what redeemTokens returned for the response held by run r
EmptyAccessTokenIsFailure(r) ==
    /\ (r.res.sent /\ r.res.body = BodyEmptyAT) =>
           /\ r.tokens = nothing
           /\ r.err.kind = "no_access_token"
           /\ r.err.raw = r.res.body
    /\ r.err = NoErr => r.tokens.access_token # ""
    /\ \A i \in 1 .. Len(r.printed) : r.printed[i].access_token # ""

\* C4: redeemTokens returns a failure that carries the raw body, and the empty
\* token set, whenever the decoded response has an empty access_token, with
\* status 200 as with any other; it returns a token set only with a non-empty
\* access_token (in the callback and in the refresh flow).
C4_EmptyAccessTokenFails ==
    /\ \A s \in HandlerSet :
          /\ s.pc = "redeemed" => EmptyAccessTokenIsFailure(s)
          /\ s.tokens # nothing => s.tokens.access_token # ""
    /\ Count(mainRun.trace, "POST token") > 0 => EmptyAccessTokenIsFailure(mainRun)

\* redeemTokens has returned for a 200 response with an empty access_token
C4_Witness ==
    \E s \in HandlerSet :
        /\ s.pc = "redeemed"
        /\ s.res = [sent |-> TRUE, status |-> 200, body |-> BodyEmptyAT]

ConfigValid == ValidateConfig(appConfig) = ""

C6_SoftExitClamps ==
    proc.state = "exited" =>
        \A s \in HandlerSet :
            s.pc \in {"se_call", "done"} =>
                proc.code = IF 0 <= s.seCode /\ s.seCode <= 125 THEN s.seCode ELSE 125

\* softExit(-1) has returned and the process has exited with 125
C6_Witness ==
    /\ proc.state = "exited" /\ proc.code = 125
    /\ \E s \in HandlerSet : s.seCode = -1 /\ s.pc = "done"

\* C7: every execution of oauth2CodeCallback requests soft-exit exactly once
\* before it returns, whichever branch it takes, with code 0 on success and a
\* non-zero code on every failure; and never more than once.
C7_SoftExitOncePerCallback ==
    \A s \in HandlerSet :
        /\ Count(s.trace, "softExit") = IF Handled(s) THEN 1 ELSE 0
        /\ s.pc = "done" =>
              /\ s.branch # ""
              /\ s.branch = "success" => s.seCode = 0
              /\ s.branch # "success" => s.seCode # 0

\* a successful callback and a callback whose exchange failed have both returned
C7_Witness ==
    /\ \E s \in HandlerSet : s.pc = "done" /\ s.branch = "success"
    /\ \E s \in HandlerSet : s.pc = "done" /\ s.branch = "exchange failure"

\* the flow has failed: a callback took an error branch, or main reported a
\* configuration, refresh or client-credentials error
FlowFailed ==
    \/ \E s \in HandlerSet : s.branch \notin {"", "success"}
    \/ proc.via \in {"config", "refresh", "clientcred"}

\* the flow has fully succeeded: a token set was printed and nothing failed
FlowSucceeded ==
    /\ ~FlowFailed
    /\ \/ \E s \in HandlerSet : s.branch = "success"
       \/ mainRun.printed # <<>>

\* C8: the process exits with code 0 on a fully successful flow and with a code
\* in [1,125] whenever the flow fails, under every interleaving of the callback
\* requests with the main loop.
C8_ExitCodeReflectsOutcome ==
    proc.state = "exited" =>
        /\ FlowSucceeded => proc.code = 0
        /\ FlowFailed => proc.code \in 1 .. 125

ProgramStep == MainStep \/ ListenerStep \/ CallbackStep \/ SoftExitStep

\* C10: when ListenAndServe fails to bind the port, the process exits; it does
\* not remain blocked in the main loop waiting for an interrupt: while it runs
\* it always has a step of its own to take.
C10_BindFailureExits ==
    (listener = "failed" /\ Running) => ENABLED ProgramStep

\* the POSTs to the token endpoint made by the handlers in S
RECURSIVE PostsOf(_)
PostsOf(S) ==
    IF S = {} THEN 0
    ELSE LET s == CHOOSE x \in S : TRUE
         IN  CopiesIn(s, handlers) * Len(s.posts) + PostsOf(S \ {s})

\* the authorization-code token exchanges performed so far in the run
CodeExchanges == PostsOf(HandlerSet)

\* C11: the pending authorization is consumed exactly once: over a whole run at
\* most one authorization-code token exchange is performed; a second callback
\* with the same state, handled later or concurrently, exchanges no token.
C11_ConsumedOnce == CodeExchanges <= 1

\* the response has been written before softExit in the trace tr: some
\* "respond" event precedes every "softExit" event
RespondedBeforeSoftExit(tr) ==
    \A j \in 1 .. Len(tr) :
        tr[j] = "softExit" => \E i \in 1 .. (j - 1) : tr[i] = "respond"

\* C12: in every callback branch, softExit is requested only after the HTTP
\* response of that request (status and body, or the redirect) has been
\* written to the ResponseWriter.
C12_ResponseBeforeSoftExit ==
    \A s \in HandlerSet :
        /\ RespondedBeforeSoftExit(s.trace)
        /\ Handled(s) => s.w.status # 0 /\ s.w.body # <<>>

\* a callback that succeeded and a callback with a wrong state have both
\* entered softExit
C12_Witness ==
    /\ \E s \in HandlerSet : Handled(s) /\ s.branch = "success"
    /\ \E s \in HandlerSet : Handled(s) /\ s.branch = "state mismatch"

\* the response w shows the client the static success page: it carries the
\* page itself, or it redirects to a path on which the server serves the page
ServesSuccessPage(w) ==
    \/ w.status = StatusOK /\ w.body = <<"html/success.html">>
    \/ /\ w.status = StatusFound
       /\ EmbeddedPage(w.body[1]).status = StatusOK
       /\ EmbeddedPage(w.body[1]).body = "html/success.html"

\* C13: a callback with a non-empty code, the configured state and a successful
\* exchange prints the token set exactly once, and the response to that
\* request serves the static success page
C13_SuccessPageServed ==
    \A s \in HandlerSet :
        Handled(s) /\ s.branch = "success" =>
            /\ Len(s.printed) = 1
            /\ Count(s.trace, "print") = 1
            /\ ServesSuccessPage(s.w)

\* the run r (a handler, or the refresh flow) has called fetchUserInfo and the
\* call has failed: tokens.UserInfo is left nil
UserInfoFailed(r) == Count(r.trace, "GET userinfo") = 1 /\ r.tokens.userinfo = "nil"

\* the run r has gone on after the failed fetch as after a successful one: the
\* warning is logged and the token set is printed once, without userinfo
ContinuedWithoutUserInfo(r) ==
    /\ <<"WARNING: ", "could not fetch userinfo">> \in r.diag
    /\ r.err = NoErr
    /\ Len(r.printed) = 1
    /\ r.printed[1].userinfo = "nil"
    /\ r.printed[1].access_token # ""
    /\ r.printed[1] = r.tokens

\* C14: when userinfo is requested and fetchUserInfo fails after a successful
\* exchange, the flow still succeeds: the warning is logged, the token set is
\* printed without userinfo, the callback requests softExit with code 0, and
\* the refresh flow ends in an exit with code 0
C14_UserInfoBestEffort ==
    /\ \A s \in HandlerSet :
           Handled(s) /\ UserInfoFailed(s) =>
               /\ ContinuedWithoutUserInfo(s)
               /\ s.branch = "success"
               /\ s.seCode = 0
               /\ s.w.status = StatusFound
    /\ UserInfoFailed(mainRun) =>
           /\ ContinuedWithoutUserInfo(mainRun)
           /\ proc.state = "exited" => proc.code = 0 /\ proc.via = "main"

C14_Witness ==
    \E s \in HandlerSet :
        /\ s.pc = "done"
        /\ UserInfoFailed(s)
        /\ appConfig.UserInfo
        /\ s.seCode = 0

\* the query of the redirect carries the five parameters of an authorization
\* request, with the configured values
BasicAuthorizationQuery(q) ==
    /\ {"client_id", "redirect_uri", "scope", "response_type", "state"} \subseteq DOMAIN q
    /\ q.client_id = appConfig.ClientID
    /\ q.redirect_uri = RedirectUri
    /\ q.scope = QueryEscape(appConfig.Scope)
    /\ q.response_type = "code"
    /\ q.state = appConfig.State

\* the query carries the PKCE parameters of an authorization request
PkceAuthorizationQuery(q) ==
    /\ {"code_challenge", "code_challenge_method"} \subseteq DOMAIN q
    /\ q.code_challenge = appConfig.CodeChallenge
    /\ q.code_challenge_method = "S256"

\* C15: the redirect built by startFlow goes to the authorization endpoint and
\* carries client_id, redirect_uri, scope, response_type=code and the
\* configured state and, whenever PKCE is enabled, also the configured
\* code_challenge and code_challenge_method=S256
C15_AuthorizationRedirect ==
    served.route = "/login" =>
        /\ served.status = StatusFound
        /\ served.location.endpoint = appConfig.AuthEndpoint
        /\ BasicAuthorizationQuery(served.location.query)
        /\ appConfig.Pkce => PkceAuthorizationQuery(served.location.query)

\* C16: the authorization-code grant request sent by redeemTokensWithCode
\* carries grant_type=authorization_code, redirect_uri, client_id,
\* client_secret and the code of the callback and, whenever PKCE is enabled,
\* also code_verifier, equal to the configured verifier
C16_CodeGrantRequest ==
    \A s \in HandlerSet :
        \A i \in 1 .. Len(s.posts) :
            LET params == s.posts[i]
            IN  /\ {"grant_type", "redirect_uri", "client_id", "client_secret", "code"}
                       \subseteq DOMAIN params
                /\ params.grant_type = "authorization_code"
                /\ params.redirect_uri = RedirectUri
                /\ params.client_id = appConfig.ClientID
                /\ params.client_secret = appConfig.ClientSecret
                /\ params.code = s.req.code
                /\ appConfig.Pkce =>
                       /\ "code_verifier" \in DOMAIN params
                       /\ params.code_verifier = appConfig.CodeVerifier

\* C17: the refresh grant request sent by redeemTokensWithRefreshToken carries
\* exactly grant_type=refresh_token, client_id, client_secret and refresh_token
\* (the configured refresh token): no code, no redirect_uri, nothing else
C17_RefreshGrantRequest ==
    \A i \in 1 .. Len(mainRun.posts) :
        LET params == mainRun.posts[i]
        IN  /\ DOMAIN params = {"grant_type", "client_id", "client_secret", "refresh_token"}
            /\ params.grant_type = "refresh_token"
            /\ params.client_id = appConfig.ClientID
            /\ params.client_secret = appConfig.ClientSecret
            /\ params.refresh_token = appConfig.RefreshToken
            /\ appConfig.RefreshToken # ""

C17_Witness ==
    /\ Len(mainRun.posts) = 1
    /\ mainRun.posts[1].refresh_token = "RT1"
    /\ appConfig.Pkce
    /\ mainRun.res.sent

\* the process has done nothing on the network but what is listed in fetches:
\* no listener, no callback served, no token exchange, no userinfo request
NoNetworkBut(fetches) ==
    /\ mainRun.trace = fetches
    /\ mainRun.posts = <<>>
    /\ listener = "none"
    /\ handlers = EmptyBag
    /\ served = NoPage

\* C18 (as stated): when initializeAppConfig reports a configuration error the
\* process exits with code 1 without any network activity: no metadata fetch,
\* no listener start, no token exchange
C18_NoNetworkOnConfigError ==
    proc.via = "config" => proc = Exited(1, "config") /\ NoNetworkBut(<<>>)

\* C18 (amended): a configuration that fails the validation ends the process
\* in initializeAppConfig's caller with code 1 and the diagnostic, before any
\* flow: no listener, no token exchange, no userinfo request. The one request
\* that may have been made is the GET of the metadata document, made exactly
\* when a metadata endpoint is configured.
C18_ConfigErrorExits ==
    /\ proc.via = "config" =>
           /\ proc = Exited(1, "config")
           /\ ValidateConfig(appConfig) # ""
           /\ <<"ERROR: invalid/incomplete application configuration">> \in mainRun.diag
           /\ NoNetworkBut(IF appConfig.MetadataEndpoint # "" THEN <<"GET metadata">> ELSE <<>>)
    /\ ValidateConfig(appConfig) # "" /\ appConfig # ZeroConfig => proc.via = "config"

C18_Witness ==
    /\ proc = Exited(1, "config")
    /\ mainRun.trace = <<"GET metadata">>
    /\ appConfig.MetadataEndpoint # ""
    /\ appConfig.ClientID = ""

\* Shutdown has returned the error of the expired context and it was printed
TimeoutReported == <<"Unexpected error when closing server">> \in mainRun.diag

\* C19: when the 15 seconds of grace expire during Shutdown with a handler
\* still in flight, the expiry is reported and changes neither the exit code
\* nor the state of the process; from then on the process ends in no other way
\* than main's deferred os.Exit with the recorded exit code, and it does end
C19_GraceExpiry ==
    /\ [][ShutdownTimeout => /\ InFlight # {}
                             /\ TimeoutReported'
                             /\ exitCode' = exitCode
                             /\ proc' = proc]_vars
    /\ [](TimeoutReported /\ ~Running => proc = Exited(exitCode, "main"))
    /\ (TimeoutReported ~> proc.state = "exited")

C19_Witness ==
    /\ TimeoutReported
    /\ proc = Exited(exitCode, "main")
    /\ InFlight # {}
    /\ exitCode = ExitCodeMax

\* some handler has called softExit
SoftExitOccurred == \E s \in HandlerSet : Handled(s)

\* the process has ended the way a soft exit ends it: Shutdown has closed the
\* listener and main's deferred os.Exit has exited with the recorded code
TornDown == proc = Exited(exitCode, "main") /\ listener = "closed"

\* C20: an external SIGINT received while the server is listening goes through
\* the teardown of a soft exit: it does not end the process by itself but wakes
\* the main loop through the stop channel, the main loop runs Shutdown and the
\* process exits with the recorded exit code, which is 0 when no softExit has
\* occurred
C20_SigintTeardown ==
    /\ [][Sigint /\ listener = "listening" => proc' = proc /\ stop' # <<>>]_vars
    /\ ((sigints > 0 /\ listener = "listening") ~> TornDown)
    /\ [](TornDown /\ ~SoftExitOccurred => proc.code = 0)

\* initializeAppConfig has returned
Initialized == mainPc # "init" \/ proc.via = "config"

\* what the configuration holds for the value v of flag f: the scope with its
\* commas replaced by spaces, the random default for an empty state, and v itself
\* for every other flag
Configured(f, v) ==
    IF f = "Scope" THEN ReplaceCommas(v)
    ELSE IF f = "State" /\ v = "" THEN RandState
    ELSE v

\* C21: for every parameter that has an O2TOKEN_ variable, client-secret and
\* state included, a flag given on the command line decides the configuration,
\* whatever the variable holds; the variable's value (when it is non-empty and
\* parses) is the configuration when the flag is not given
C21_CliPrecedence ==
    Initialized =>
        \A p \in EnvFlags :
            LET given == args[p[1]]
                envValue == environ[p[2]]
            IN  /\ given # <<>> => appConfig[p[1]] = Configured(p[1], given[1])
                /\ given = <<>> /\ envValue # <<>> =>
                       IF p \in BoolFlags
                           THEN ParseBool(envValue[1]).ok =>
                                    appConfig[p[1]] = ParseBool(envValue[1]).value
                       ELSE IF p \in UintFlags
                           THEN ParseUint(envValue[1]).ok =>
                                    appConfig[p[1]] = ParseUint(envValue[1]).value
                       ELSE appConfig[p[1]] = Configured(p[1], envValue[1])

\* C22: the stop channel receives the interrupts (signal.Notify) and serverExit
\* is the function that sends on it before the listener can accept a request:
\* in no reachable state does the server listen, or a request handler run,
\* while serverExit is the placeholder or signal capturing is not set up
C22_ArmedBeforeListening ==
    (listener = "listening" \/ InFlight # {}) => (notify /\ serverExit = "armed")

\* the softExit call of handler s stands at `stop <- syscall.SIGINT` with the
\* buffer of stop full
BlockedInSoftExit(s) == s.pc = "se_call" /\ serverExit = "armed" /\ Len(stop) = StopCap

\* the main goroutine has done its one receive on stop
ReceiveDone == mainPc \in {"shutdown", "draining", "return"}

\* C23: softExit never blocks its caller: however the softExit calls of
\* concurrent handlers interleave with an external SIGINT and with the main
\* loop's single receive on stop, no call waits on the stop channel for a
\* receive that will not come, so every call returns
C23_SoftExitNeverBlocks ==
    Running => \A s \in HandlerSet : ~(BlockedInSoftExit(s) /\ ReceiveDone)

\* C24: whatever the interleaving of the handlers' softExit calls with the main
\* goroutine's read of exitCode at the exit (the exit after an expired grace
\* period with a handler still running included), the process exits with a
\* value in [0,125]: the unclamped value softExit writes first is never the
\* exit code
C24_ExitCodeInRange ==
    proc.via = "main" => proc.code \in 0 .. ExitCodeMax

\* the main goroutine has called server.Shutdown
ShutdownCalled == mainPc \in {"draining", "return"} /\ listener \in {"closed", "failed"}

\* C25: server.Shutdown is invoked only by the main goroutine, at most once,
\* and only after it has received from the stop channel; no request handler
\* invokes Shutdown or closes the listener: the listener is closed by the
\* ShutdownStart step alone, that step follows the receive, it is never taken
\* again, and no step of a handler changes the listener or main's position
C25_ShutdownByMainOnly ==
    /\ [][(listener' = "closed" /\ listener # "closed") => ShutdownStart]_vars
    /\ [][ShutdownStart => mainPc = "shutdown" /\ ~ShutdownCalled /\ ShutdownCalled']_vars
    /\ [][mainPc' = "shutdown" /\ mainPc # "shutdown" => ReceiveStop]_vars
    /\ [][ShutdownCalled => ShutdownCalled' /\ ~ShutdownStart]_vars
    /\ [][CallbackStep \/ SoftExitStep => listener' = listener /\ mainPc' = mainPc]_vars

C25_Witness ==
    /\ mainPc = "draining"
    /\ listener = "closed"
    /\ \E s \in HandlerSet : s.pc = "done"
    /\ sigints = 0

\* the terminal errors of a run: main's two diagnostics, and a callback that
\* has reported an error
ConfigError == <<"ERROR: invalid/incomplete application configuration">> \in mainRun.diag
RefreshError == <<"ERROR: token refresh failed">> \in mainRun.diag
CallbackError == \E s \in HandlerSet : Handled(s) /\ s.branch # "success"

\* the process was ended by a softExit call: by the placeholder it called, or
\* by main's exit after a softExit had been requested
ExitedThroughSoftExit ==
    /\ proc.state = "exited"
    /\ proc.via \in {"serverExit", "main"}
    /\ SoftExitOccurred

C27_RoutesNeverSoftExit ==
    [][RouteStep => /\ exitCode' = exitCode
                    /\ stop' = stop
                    /\ serverExit' = serverExit
                    /\ handlers' = handlers
                    /\ proc' = proc
                    /\ mainPc' = mainPc
                    /\ listener = "listening" /\ listener' = "listening"]_vars

C27_Witness ==
    /\ served.route = "/favicon.ico"
    /\ served.status = StatusNotFound
    /\ listener = "listening"
    /\ mainPc = "wait"
    /\ stop = <<>>
    /\ Running

\* initializeAppConfig has returned without error: main has gone on
ReturnedWithoutError == mainPc # "init"

\* C28: whenever initializeAppConfig returns without error, the callback path
\* is non-empty and begins with "/", the port is in [1,65535], the
\* authorization endpoint, the token endpoint, the client id and the state are
\* non-empty, and the userinfo endpoint is non-empty if userinfo is enabled
C28_ValidConfiguration ==
    ReturnedWithoutError =>
        /\ appConfig.CallbackPath # <<>>
        /\ Head(appConfig.CallbackPath) = "/"
        /\ appConfig.Port \in 1 .. PortMax
        /\ appConfig.AuthEndpoint # ""
        /\ appConfig.TokenEndpoint # ""
        /\ appConfig.ClientID # ""
        /\ appConfig.State # ""
        /\ appConfig.UserInfo => appConfig.UserInfoEndpoint # ""

C28_Witness ==
    /\ ReturnedWithoutError
    /\ args.Port = <<>>
    /\ environ["O2TOKEN_PORT"] = <<<<"9", "0", "0", "1">>>>
    /\ appConfig.Port = 9001

\* C29 (as stated): whenever PKCE is enabled in the configuration that
\* initializeAppConfig returns, the verifier and the challenge are non-empty
\* and the challenge is the canonical transform of the verifier, for every
\* combination of --code-verifier and --code-challenge
C29_PkceCanonical ==
    ReturnedWithoutError /\ appConfig.Pkce =>
        /\ appConfig.CodeVerifier # ""
        /\ appConfig.CodeChallenge # <<>>
        /\ appConfig.CodeChallenge = computePkceCodeChallenge(appConfig.CodeVerifier)

\* the value of flag f on the command line is empty or the flag is not given
NotSupplied(f) == args[f] \in {<<>>, <<"">>}

\* C29 (amended): whenever PKCE is enabled in the returned configuration, the
\* verifier and the challenge are non-empty; a verifier and a challenge given
\* on the command line are kept as they are, a verifier that is not given is
\* generated, and the challenge is the canonical transform of the verifier
\* when no challenge is given
C29_PkceConfigured ==
    ReturnedWithoutError /\ appConfig.Pkce =>
        /\ appConfig.CodeVerifier # ""
        /\ appConfig.CodeChallenge # <<>>
        /\ IF NotSupplied("CodeVerifier")
              THEN appConfig.CodeVerifier = genPkceCodeVerifier
              ELSE <<appConfig.CodeVerifier>> = args.CodeVerifier
        /\ IF NotSupplied("CodeChallenge")
              THEN appConfig.CodeChallenge = computePkceCodeChallenge(appConfig.CodeVerifier)
              ELSE appConfig.CodeChallenge = args.CodeChallenge

C29_Witness ==
    /\ ReturnedWithoutError
    /\ appConfig.Pkce
    /\ args.CodeVerifier = <<"given-verifier">>
    /\ args.CodeChallenge = <<"">>
    /\ appConfig.CodeChallenge = computePkceCodeChallenge("given-verifier")

\* run r holds what redeemTokens returned for a response that was received
Redeemed(r) == r.res.sent /\ Count(r.trace, "POST token") > 0

\* what redeemTokens returned for run r follows from the body of the response
DecodedFromBody(r) ==
    /\ r.res.body = BodyAT1 =>
           /\ r.tokens # nothing
           /\ r.tokens.access_token = "AT1"
           /\ r.tokens.refresh_token = "RT2"
           /\ r.err.kind \in {"nil", "output"}
    /\ r.res.body = BodyGarbage =>
           /\ r.tokens = nothing
           /\ r.err.kind = "parse"

\* C30: the result of redeemTokens depends only on the decoded response body,
\* not on the HTTP status: a response with any status whose JSON body has a
\* non-empty access_token yields a token set, a body that is not valid JSON
\* yields a decode failure, and two exchanges answered with the same body have
\* the same result whatever their statuses.
C30_StatusIgnored ==
    /\ \A s \in HandlerSet : (s.pc = "redeemed" /\ Redeemed(s)) => DecodedFromBody(s)
    /\ Redeemed(mainRun) => DecodedFromBody(mainRun)
    /\ \A s, t \in HandlerSet :
          (s.pc = "redeemed" /\ t.pc = "redeemed" /\ Redeemed(s) /\ Redeemed(t)
               /\ s.res.body = t.res.body) =>
              (s.tokens = t.tokens /\ s.err = t.err)

\* a 400 response with a JSON body carrying an access token has given a token set
C30_Witness ==
    \E s \in HandlerSet :
        /\ s.pc = "redeemed"
        /\ s.res = [sent |-> TRUE, status |-> 400, body |-> BodyAT1]
        /\ s.tokens.access_token = "AT1"
        /\ s.err = NoErr

\* the runs that hold what a call of redeemTokens returned: the callbacks that
\* stand right after their exchange, and the refresh run once it has posted
RedeemRuns ==
    {s \in HandlerSet : s.pc = "redeemed"}
        \cup (IF Count(mainRun.trace, "POST token") > 0 THEN {mainRun} ELSE {})

\* the three failures of redeemTokens, by the text of the error returned
SendFailure(r) == ErrText(r.err) = <<"could not send HTTP request to redeem tokens">>
DecodeFailure(r) == ErrText(r.err) = <<"could not parse JSON response for redeemed tokens">>
EmptyAccessTokenFailure(r) ==
    ErrText(r.err) = <<"no access token received, raw response: ", r.res.body>>

\* C31: redeemTokens reports a request that could not be sent as an error of
\* its own, different from the decode failure and from the empty-access-token
\* failure, and in each of the three cases it returns the empty token set
C31_DistinctFailures ==
    \A r \in RedeemRuns :
        /\ ~r.res.sent <=> SendFailure(r)
        /\ (r.res.sent /\ ~Unmarshal(r.res.body).ok) <=> DecodeFailure(r)
        /\ (r.res.sent /\ r.res.body = BodyEmptyAT) <=> EmptyAccessTokenFailure(r)
        /\ ~(SendFailure(r) /\ DecodeFailure(r))
        /\ ~(SendFailure(r) /\ EmptyAccessTokenFailure(r))
        /\ ~(DecodeFailure(r) /\ EmptyAccessTokenFailure(r))
        /\ (SendFailure(r) \/ DecodeFailure(r) \/ EmptyAccessTokenFailure(r)) => r.tokens = nothing

\* a callback whose exchange could not be sent holds the send failure
C31_Witness ==
    \E s \in HandlerSet :
        /\ s.pc = "redeemed"
        /\ s.res = NoResponse
        /\ SendFailure(s)
        /\ s.tokens = nothing

\* no character of s is outside base64url without padding because it is one of
\* the three that standard base64 has and base64url has not
UnpaddedBase64Url(s) == \A i \in 1 .. Len(s) : s[i] \notin {"+", "/", "="}

\* the challenge RFC 7636 (appendix B) gives for the verifier genPkceCodeVerifier
Rfc7636Challenge ==
    <<"E", "9", "M", "e", "l", "h", "o", "a", "2", "O", "w", "v", "F", "r", "E", "M",
      "T", "J", "g", "u", "C", "H", "a", "o", "e", "K", "1", "t", "8", "U", "R", "W",
      "b", "u", "G", "J", "S", "s", "t", "w", "-", "c", "M">>

\* standard base64 text of up to MaxEncoded characters over a sample of the
\* alphabet that holds the three characters base64url replaces
MaxEncoded == 3
Base64Sample == {"A", "z", "9", "+", "/", "="}
Base64Strings == UNION {[1 .. n -> Base64Sample] : n \in 0 .. MaxEncoded}

\* the configuration holds a challenge that initializeAppConfig derived
ChallengeDerived == ReturnedWithoutError /\ appConfig.Pkce /\ NotSupplied("CodeChallenge")

\* C32: deriving the PKCE challenge from a verifier is deterministic (the
\* challenge in the configuration is the one value the verifier determines) and
\* the result is unpadded base64url: it holds no "+", "/" or "=", whatever the
\* standard encoding of the digest holds
C32_ChallengeDerivation ==
    /\ ChallengeDerived =>
           /\ appConfig.CodeChallenge = computePkceCodeChallenge(appConfig.CodeVerifier)
           /\ appConfig.CodeVerifier = genPkceCodeVerifier =>
                  appConfig.CodeChallenge = Rfc7636Challenge
           /\ UnpaddedBase64Url(appConfig.CodeChallenge)
           /\ Len(appConfig.CodeChallenge) = Len(Sha256Base64(appConfig.CodeVerifier)) - 1
    /\ \A s \in Base64Strings :
           /\ UnpaddedBase64Url(Base64ToBase64Url(s))
           /\ Base64ToBase64Url(Base64ToBase64Url(s)) = Base64ToBase64Url(s)

\* a challenge derived from a digest whose standard encoding holds "/" and "="
C32_Witness ==
    /\ ChallengeDerived
    /\ args.CodeVerifier = <<VerifierA43>>
    /\ \E i \in 1 .. Len(Sha256Base64(VerifierA43)) : Sha256Base64(VerifierA43)[i] = "/"
    /\ \E i \in 1 .. Len(appConfig.CodeChallenge) : appConfig.CodeChallenge[i] = "_"

\* the softExit call of handler s stands at serverExit() and serverExit is
\* still the placeholder
AtPlaceholder(s) == s.pc = "se_call" /\ serverExit = "placeholder"

\* the process was ended by the placeholder: with code 1, and main has not
\* come to the graceful Shutdown
EndedByPlaceholder ==
    /\ proc = Exited(1, "serverExit")
    /\ mainPc \notin {"shutdown", "draining", "return"}
    /\ listener # "closed"

\* C33: a softExit(c) that calls serverExit while it is still the placeholder
\* ends the process at once with code 1, for every c (0 included) and whatever
\* exitCode holds, without the graceful Shutdown: the call never returns to
\* its handler, and a process that ended in serverExit ended this way
C33_PlaceholderExit ==
    /\ [](proc.via = "serverExit" =>
              /\ EndedByPlaceholder
              /\ \E s \in HandlerSet : AtPlaceholder(s))
    /\ [][\A s \in HandlerSet :
              AtPlaceholder(s) =>
                  \/ CopiesIn(s, handlers') >= CopiesIn(s, handlers)
                  \/ EndedByPlaceholder']_vars

\* softExit(0) of a successful callback has ended the process with code 1
C33_Witness ==
    /\ EndedByPlaceholder
    /\ exitCode = 0
    /\ \E s \in HandlerSet : AtPlaceholder(s) /\ s.seCode = 0 /\ s.tokens # nothing

\* a callback has recorded a non-zero exit code: its softExit has executed
\* `exitCode = code` with a code that is not 0
RecordedFailure ==
    \E s \in HandlerSet : s.pc \in {"se_clamp", "se_call", "done"} /\ s.seCode # 0

\* C34: once any callback has recorded a non-zero exit code, the final exit
\* code of the process is non-zero: a successful callback that completes later
\* or concurrently never resets a recorded failure to 0
C34_FailureNotReset ==
    (proc.state = "exited" /\ RecordedFailure) => proc.code # 0

\* the branches of oauth2CodeCallback that end in reportErrorAndSoftExit, with
\* the HTTP status each one passes
ReportedStatus ==
    [b \in {"parse failure", "missing code", "state mismatch", "exchange failure"} |->
        IF b = "exchange failure" THEN StatusInternalServerError ELSE StatusBadRequest]

\* the run has a single callback, s, on an armed server, and the softExit of s
\* has recorded its code (it is past the range test)
SingleCallbackRecorded(s) ==
    /\ handlers = SetToBag({s})
    /\ serverExit = "armed"
    /\ s.pc \in {"se_call", "done"}

\* C35: in a run with a single callback on an armed server, every failure
\* reported through reportErrorAndSoftExit (parse failure, missing code, state
\* mismatch with HTTP 400; exchange failure with HTTP 500) records exit code
\* exactly 125, the HTTP status passed as the code being outside 0..125; 1 is
\* recorded by an output failure only, the code of that branch; and a process
\* that main ends after the failed callback has returned exits with 125
C35_FailuresRecord125 ==
    /\ \A b \in DOMAIN ReportedStatus : OutOfRange(ReportedStatus[b])
    /\ OutputExitCode("error") = 1 /\ ~OutOfRange(OutputExitCode("error"))
    /\ \A s \in HandlerSet :
          SingleCallbackRecorded(s) =>
              /\ s.branch \in DOMAIN ReportedStatus =>
                     /\ s.w.status = ReportedStatus[s.branch]
                     /\ s.seCode = ReportedStatus[s.branch]
                     /\ exitCode = ExitCodeMax
                     /\ (proc.via = "main" /\ s.pc = "done") => proc.code = ExitCodeMax
              /\ s.branch \in DOMAIN ReportedStatus \cup {"success", "output failure"}
              /\ exitCode = 1 <=> s.branch = "output failure"
              /\ exitCode = 0 <=> s.branch = "success"

\* a single callback whose exchange failed (HTTP 500) has recorded 125 and the
\* process has exited with it
C35_Witness ==
    \E s \in HandlerSet :
        /\ SingleCallbackRecorded(s)
        /\ s.branch = "exchange failure"
        /\ s.w.status = StatusInternalServerError
        /\ s.pc = "done"
        /\ proc = Exited(ExitCodeMax, "main")

\* event a comes before event b in the trace tr
Precedes(tr, a, b) == \E i, j \in 1 .. Len(tr) : i < j /\ tr[i] = a /\ tr[j] = b

\* run r has printed at most one token set, and the one it printed is what its
\* token exchange returned before, with a non-empty access token
PrintsAfterExchange(r) ==
    /\ Len(r.printed) <= 1
    /\ Len(r.printed) = Count(r.trace, "print")
    /\ r.printed # <<>> =>
           /\ Count(r.trace, "POST token") = 1
           /\ Precedes(r.trace, "POST token", "print")
           /\ r.printed[1].access_token # ""
           /\ r.printed[1].access_token = r.tokens.access_token

\* C36: a token set is printed only after a token exchange that returned a
\* non-empty access token: no callback that fails at parsing, code, state or
\* exchange prints a token set (nor does a refresh run that fails), and each
\* callback or refresh run prints at most one
C36_PrintOnlyAfterExchange ==
    /\ PrintsAfterExchange(mainRun)
    /\ proc.via = "refresh" /\ proc.code # 0 => mainRun.printed = <<>>
    /\ \A s \in HandlerSet :
          /\ PrintsAfterExchange(s)
          /\ s.branch \in DOMAIN ReportedStatus => s.printed = <<>>
          /\ s.printed # <<>> => s.branch = "success"

\* a callback has printed its token set while another one, whose exchange
\* failed, has printed nothing
C36_Witness ==
    \E s, t \in HandlerSet :
        /\ s.branch = "success" /\ Len(s.printed) = 1 /\ s.printed[1].access_token = "AT1"
        /\ t.branch = "exchange failure" /\ t.printed = <<>> /\ Count(t.trace, "POST token") = 1

\* http://localhost:<port><callback_path> for the configuration
CanonicalRedirectUri == <<"http://localhost:", ToString(appConfig.Port)>> \o appConfig.CallbackPath

\* the redirect_uri the authorization endpoint reads in the redirect of /login
AuthorizationRedirectUri == QueryValue(LocationQuery(served.location), "redirect_uri")

\* the redirect_uri the token endpoint reads in the body of a code grant
ExchangeRedirectUri(params) == QueryValue(EncodeForm(params), "redirect_uri")

\* C37: the redirect_uri sent in the authorization redirect by startFlow and
\* the redirect_uri sent in the authorization-code token exchange are the same
\* value, http://localhost:<port><callback_path>, for every valid configuration
C37_SameRedirectUri ==
    ConfigValid =>
        /\ served.route = "/login" => AuthorizationRedirectUri = CanonicalRedirectUri
        /\ \A s \in HandlerSet :
              \A i \in 1 .. Len(s.posts) :
                  /\ ExchangeRedirectUri(s.posts[i]) = CanonicalRedirectUri
                  /\ served.route = "/login" =>
                         AuthorizationRedirectUri = ExchangeRedirectUri(s.posts[i])

=============================================================================
